---- MODULE Spec2Model ----
(***************************************************************************)
(* A model of the INIS QA automation: the correction matchers of the       *)
(* Corrector (auto_correction_processor.py) and of the applier             *)
(* (auto_correction_applier.py), the loops that drive them over a folder   *)
(* of QA reports, and the top-level driver (inis_daily_qa_automation.py).  *)
(*                                                                         *)
(* JSON documents are TLA+ functions from keys to values: a key is present *)
(* iff it is in the DOMAIN.  A JSON list is a sequence, the empty dict and *)
(* the empty list are both << >>.  JSON null in the place of a dict is the *)
(* value Null; using it as a dict is the "internal error" a matcher can    *)
(* raise.  A Python string is a TLA+ string and "" is the falsy one.       *)
(***************************************************************************)
EXTENDS Integers, Sequences, FiniteSets, TLC

(***************************************************************************)
(* JSON helpers                                                            *)
(***************************************************************************)
Null == [null |-> TRUE]

IsDict(x) == x # Null

\* dict.get(k, default)
Get(d, k, default) == IF k \in DOMAIN d THEN d[k] ELSE default

\* d[k] = v
Put(d, k, v) == [x \in (DOMAIN d) \cup {k} |-> IF x = k THEN v ELSE d[x]]

QA_CHECKED == "iaea:qa_checked"

DESCRIPTORS == "iaea:descriptors_cai_text"

\* str.lower() on the words the model uses
Lower(s) ==
    CASE s \in {"REACTOR", "Reactor", "reactor"} -> "reactor"
      [] s \in {"FUEL", "Fuel", "fuel"} -> "fuel"
      [] OTHER -> s

RECURSIVE SumSeq(_)
SumSeq(s) == IF s = << >> THEN 0 ELSE Head(s) + SumSeq(Tail(s))

MaxOf(S) == CHOOSE m \in S : \A x \in S : x <= m

\* number of affiliation entries of all creators named `name`
RECURSIVE CountAff(_, _)
CountAff(creators, name) ==
    IF creators = << >> THEN 0
    ELSE LET affs == Get(Head(creators), "affiliations", << >>)
         IN  Cardinality({i \in DOMAIN affs : Get(affs[i], "name", "") = name})
             + CountAff(Tail(creators), name)

\* a report value that may be a string, a list or an object carries its type
JStr(x) == [str |-> x]

JList(x) == [list |-> x]

JObj(x) == [obj |-> x]

IsStr(v) == "str" \in DOMAIN v

IsList(v) == "list" \in DOMAIN v

(***************************************************************************)
(* The Corrector's matchers (class AutoCorrectionProcessor).  Each yields  *)
(* the record after the call, the boolean it returns and whether the body  *)
(* raised (the except branch returns False).                               *)
(***************************************************************************)
Outcome(rec, ret, raised) == [rec |-> rec, ret |-> ret, raised |-> raised]

\* SetMetadataField whose except branch reports success
SetMetadataField_raise_true(record, field, value) ==
    LET r0 == IF "metadata" \in DOMAIN record THEN record
              ELSE Put(record, "metadata", << >>)
    IN  IF ~IsDict(r0.metadata) THEN Outcome(record, TRUE, TRUE)
        ELSE Outcome(Put(r0, "metadata", Put(r0.metadata, field, value)), TRUE, FALSE)

\* a metadata write shared by the title, abstract and date matchers:
\* attach an empty metadata dict when missing, then set the field
SetMetadataField(record, field, value) ==
    LET r0 == IF "metadata" \in DOMAIN record THEN record
              ELSE Put(record, "metadata", << >>)
    IN  IF ~IsDict(r0.metadata) THEN Outcome(record, FALSE, TRUE)
        ELSE Outcome(Put(r0, "metadata", Put(r0.metadata, field, value)), TRUE, FALSE)

\* P_apply_title_correction writing the abstract's field
P_apply_title_correction_description(record, correction) ==
    SetMetadataField(record, "description", correction)

P_apply_title_correction(record, correction) ==
    SetMetadataField(record, "title", correction)

P_apply_abstract_correction(record, correction) ==
    SetMetadataField(record, "description", correction)

P_apply_date_correction(record, correction) ==
    SetMetadataField(record, "publication_date", correction)

\* P_RenameAll leaving the scan after the first creator
P_RenameAll_first_creator(creators, old, new) ==
    [c \in DOMAIN creators |->
        IF c = 1 /\ "affiliations" \in DOMAIN creators[c]
        THEN Put(creators[c], "affiliations",
                 [i \in DOMAIN creators[c].affiliations |->
                    IF Get(creators[c].affiliations[i], "name", "") = old
                    THEN Put(creators[c].affiliations[i], "name", new)
                    ELSE creators[c].affiliations[i]])
        ELSE creators[c]]

\* one pass of the inner loops of the Corrector: every affiliation entry of
\* every creator named `old` is renamed `new`
P_RenameAll(creators, old, new) ==
    [c \in DOMAIN creators |->
        IF "affiliations" \in DOMAIN creators[c]
        THEN Put(creators[c], "affiliations",
                 [i \in DOMAIN creators[c].affiliations |->
                    IF Get(creators[c].affiliations[i], "name", "") = old
                    THEN Put(creators[c].affiliations[i], "name", new)
                    ELSE creators[c].affiliations[i]])
        ELSE creators[c]]

\* the outer loop over the corrections, in list order; hits[k] is the number
\* of times corrections_applied was incremented while pair k was scanned.
\* A list item that is not a dict makes correction.get raise: the loop stops
\* there, with the renames already made left in the record
RECURSIVE P_AffLoop(_, _, _)
P_AffLoop(creators, corrections, hits) ==
    IF corrections = << >>
    THEN [creators |-> creators, hits |-> hits, raised |-> FALSE]
    ELSE IF ~IsDict(Head(corrections))
    THEN [creators |-> creators, hits |-> hits, raised |-> TRUE]
    ELSE LET old == Get(Head(corrections), "old_affiliation", "")
             new == Get(Head(corrections), "recommended_affiliation", "")
         IN  IF old = "" \/ new = ""
             THEN P_AffLoop(creators, Tail(corrections), Append(hits, 0))
             ELSE P_AffLoop(P_RenameAll(creators, old, new), Tail(corrections),
                            Append(hits, CountAff(creators, old)))

\* record.metadata.creators := creators, when the record holds such a list
\* (the lists the matchers walk are the record's own, changed in place)
WithCreators(record, creators) ==
    IF "metadata" \in DOMAIN record /\ "creators" \in DOMAIN record.metadata
    THEN Put(record, "metadata", Put(record.metadata, "creators", creators))
    ELSE record

P_AffiliationRun(record, corrections) ==
    LET metadata == Get(record, "metadata", << >>)
    IN  IF ~IsDict(metadata)
        THEN [rec |-> record, hits |-> << >>, raised |-> TRUE]
        ELSE LET run == P_AffLoop(Get(metadata, "creators", << >>), corrections, << >>)
             IN  [rec |-> WithCreators(record, run.creators),
                  hits |-> run.hits, raised |-> run.raised]

P_apply_affiliation_corrections(record, corrections) ==
    LET run == P_AffiliationRun(record, corrections)
    IN  Outcome(run.rec, ~run.raised /\ SumSeq(run.hits) > 0, run.raised)

\* KeepDescriptors comparing without lowercasing
KeepDescriptors_case_sensitive(descriptors, deletions) ==
    SelectSeq(descriptors, LAMBDA d : \A k \in DOMAIN deletions : d # deletions[k])

\* KeepDescriptors dropping only the first entry that matches
KeepDescriptors_first_only(descriptors, deletions) ==
    LET hit == {i \in DOMAIN descriptors :
                  \E k \in DOMAIN deletions : Lower(descriptors[i]) = Lower(deletions[k])}
    IN  IF hit = {} THEN descriptors
        ELSE LET first == CHOOSE i \in hit : \A j \in hit : i <= j
             IN  [i \in 1..(Len(descriptors) - 1) |->
                    IF i < first THEN descriptors[i] ELSE descriptors[i + 1]]

\* descriptors[:] = [d for d in descriptors if d.lower() not in deletions_lower]
KeepDescriptors(descriptors, deletions) ==
    SelectSeq(descriptors,
              LAMBDA d : \A k \in DOMAIN deletions : Lower(d) # Lower(deletions[k]))

P_apply_descriptor_deletions(record, deletions) ==
    LET custom_fields == Get(record, "custom_fields", << >>)
    IN  IF ~IsDict(custom_fields) THEN Outcome(record, FALSE, TRUE)
        ELSE LET descriptors == Get(custom_fields, DESCRIPTORS, << >>)
                 kept == KeepDescriptors(descriptors, deletions)
             IN  IF descriptors = << >> THEN Outcome(record, FALSE, FALSE)
                 ELSE Outcome(Put(record, "custom_fields",
                                  Put(custom_fields, DESCRIPTORS, kept)),
                              Len(descriptors) - Len(kept) > 0, FALSE)

\* a single string is one deletion
NormalizeDeletions(raw) == IF IsStr(raw) THEN <<raw.str>> ELSE raw.list

\* metadata = record.get("metadata", {}): when the record has no metadata
\* the dict the identifier is appended to is a fresh one, not the record's
P_add_related_identifier(record, identifier_data) ==
    LET metadata == Get(record, "metadata", << >>)
        attached == "metadata" \in DOMAIN record
    IN  IF ~IsDict(metadata) THEN Outcome(record, FALSE, TRUE)
        ELSE LET m0 == IF "related_identifiers" \in DOMAIN metadata THEN metadata
                       ELSE Put(metadata, "related_identifiers", << >>)
                 r0 == IF attached THEN Put(record, "metadata", m0) ELSE record
                 existing == {Get(m0.related_identifiers[i], "identifier", "") :
                                 i \in DOMAIN m0.related_identifiers}
             IN  IF ~IsDict(identifier_data) THEN Outcome(r0, FALSE, TRUE)
                 ELSE LET new_identifier == Get(identifier_data, "identifier", "")
                      IN  IF new_identifier # "" /\ new_identifier \notin existing
                          THEN Outcome(
                                 IF attached
                                 THEN Put(record, "metadata",
                                          Put(m0, "related_identifiers",
                                              Append(m0.related_identifiers, identifier_data)))
                                 ELSE record,
                                 TRUE, FALSE)
                          ELSE Outcome(r0, FALSE, FALSE)

(***************************************************************************)
(* The applier's matchers (class INISCorrectionApplier).                   *)
(***************************************************************************)
A_apply_title_correction(record_data, new_title) ==
    SetMetadataField(record_data, "title", new_title)

\* the corrections whose old name is `current_name` and whose recommended
\* name is non-empty; current_name is read once, before the corrections loop
A_Matching(current_name, corrections, oldKey, newKey) ==
    {k \in DOMAIN corrections :
        /\ current_name = Get(corrections[k], oldKey, "")
        /\ Get(corrections[k], newKey, "") # ""}

\* the name an entry ends with: every matching correction overwrites it in
\* list order, so the last one stays
A_Rename(entry, corrections, oldKey, newKey) ==
    LET m == A_Matching(Get(entry, "name", ""), corrections, oldKey, newKey)
    IN  IF m = {} THEN entry
        ELSE Put(entry, "name", Get(corrections[MaxOf(m)], newKey, ""))

A_AffCreators(creators, corrections) ==
    [c \in DOMAIN creators |->
        IF "affiliations" \in DOMAIN creators[c]
        THEN Put(creators[c], "affiliations",
                 [i \in DOMAIN creators[c].affiliations |->
                    A_Rename(creators[c].affiliations[i], corrections,
                             "old_affiliation", "recommended_affiliation")])
        ELSE creators[c]]

\* hits[k]: the increments of applied_count made for pair k
A_AffHits(creators, corrections) ==
    [k \in DOMAIN corrections |->
        IF Get(corrections[k], "recommended_affiliation", "") # ""
        THEN CountAff(creators, Get(corrections[k], "old_affiliation", ""))
        ELSE 0]

\* a correction that is not a dict makes correction.get raise when the first
\* affiliation entry is compared with it: the corrections before it have by
\* then been applied to that one entry
A_Malformed(corrections) == \E k \in DOMAIN corrections : ~IsDict(corrections[k])

FirstMalformed(corrections) ==
    CHOOSE k \in DOMAIN corrections :
        /\ ~IsDict(corrections[k])
        /\ \A j \in 1..(k - 1) : IsDict(corrections[j])

HasAffEntry(creators) ==
    \E c \in DOMAIN creators : Get(creators[c], "affiliations", << >>) # << >>

FirstWithAff(creators) ==
    CHOOSE c \in DOMAIN creators :
        /\ Get(creators[c], "affiliations", << >>) # << >>
        /\ \A j \in 1..(c - 1) : Get(creators[j], "affiliations", << >>) = << >>

A_AffInterrupted(creators, corrections) ==
    LET c0 == FirstWithAff(creators)
        prefix == SubSeq(corrections, 1, FirstMalformed(corrections) - 1)
    IN  [c \in DOMAIN creators |->
            IF c = c0
            THEN Put(creators[c], "affiliations",
                     [i \in DOMAIN creators[c].affiliations |->
                        IF i = 1
                        THEN A_Rename(creators[c].affiliations[i], prefix,
                                      "old_affiliation", "recommended_affiliation")
                        ELSE creators[c].affiliations[i]])
            ELSE creators[c]]

A_AffiliationRun(record_data, corrections) ==
    LET metadata == Get(record_data, "metadata", << >>)
    IN  IF ~IsDict(metadata)
        THEN [rec |-> record_data, hits |-> << >>, raised |-> TRUE]
        ELSE LET creators == Get(metadata, "creators", << >>)
             IN  IF A_Malformed(corrections) /\ HasAffEntry(creators)
                 THEN [rec |-> WithCreators(record_data,
                                            A_AffInterrupted(creators, corrections)),
                       hits |-> << >>, raised |-> TRUE]
                 ELSE IF A_Malformed(corrections)
                 THEN [rec |-> record_data, hits |-> [k \in DOMAIN corrections |-> 0],
                       raised |-> FALSE]
                 ELSE [rec |-> WithCreators(record_data, A_AffCreators(creators, corrections)),
                       hits |-> A_AffHits(creators, corrections), raised |-> FALSE]

A_apply_affiliation_corrections(record_data, corrections) ==
    LET run == A_AffiliationRun(record_data, corrections)
    IN  Outcome(run.rec, ~run.raised /\ SumSeq(run.hits) > 0, run.raised)

\* same discipline as the affiliations, on person_or_org.name of the
\* creators whose type is organizational
A_OrgCreators(creators, corrections) ==
    [c \in DOMAIN creators |->
        LET person_org == Get(creators[c], "person_or_org", << >>)
        IN  IF Get(person_org, "type", "") = "organizational"
               /\ "person_or_org" \in DOMAIN creators[c]
            THEN Put(creators[c], "person_or_org",
                     A_Rename(person_org, corrections, "old_organizational_author",
                              "recommended_organizational_author"))
            ELSE creators[c]]

A_OrgCount(creators, corrections) ==
    LET orgs == {c \in DOMAIN creators :
                    Get(Get(creators[c], "person_or_org", << >>), "type", "")
                        = "organizational"}
        m(c) == A_Matching(Get(Get(creators[c], "person_or_org", << >>), "name", ""),
                           corrections, "old_organizational_author",
                           "recommended_organizational_author")
    IN  SumSeq([c \in DOMAIN creators |-> IF c \in orgs THEN Cardinality(m(c)) ELSE 0])

IsOrganizational(creator) ==
    Get(Get(creator, "person_or_org", << >>), "type", "") = "organizational"

HasOrganizational(creators) == \E c \in DOMAIN creators : IsOrganizational(creators[c])

FirstOrganizational(creators) ==
    CHOOSE c \in DOMAIN creators :
        /\ IsOrganizational(creators[c])
        /\ \A j \in 1..(c - 1) : ~IsOrganizational(creators[j])

\* a correction that is not a dict makes correction.get raise when the first
\* organizational creator is compared with it: the corrections before it have
\* by then been applied to that creator's name
A_OrgInterrupted(creators, corrections) ==
    LET c0 == FirstOrganizational(creators)
        prefix == SubSeq(corrections, 1, FirstMalformed(corrections) - 1)
    IN  [c \in DOMAIN creators |->
            IF c = c0
            THEN Put(creators[c], "person_or_org",
                     A_Rename(creators[c].person_or_org, prefix,
                              "old_organizational_author",
                              "recommended_organizational_author"))
            ELSE creators[c]]

A_apply_organizational_author_corrections(record_data, corrections) ==
    LET metadata == Get(record_data, "metadata", << >>)
    IN  IF ~IsDict(metadata) THEN Outcome(record_data, FALSE, TRUE)
        ELSE LET creators == Get(metadata, "creators", << >>)
             IN  IF A_Malformed(corrections) /\ HasOrganizational(creators)
                 THEN Outcome(WithCreators(record_data,
                                           A_OrgInterrupted(creators, corrections)),
                              FALSE, TRUE)
                 ELSE IF A_Malformed(corrections)
                 THEN Outcome(record_data, FALSE, FALSE)
                 ELSE Outcome(WithCreators(record_data,
                                           A_OrgCreators(creators, corrections)),
                              A_OrgCount(creators, corrections) > 0, FALSE)

\* A_mark_qa_checked leaving the marker out
A_mark_qa_checked_skipped(record_data) == Outcome(record_data, TRUE, FALSE)

\* raises (no except here: the caller's handler takes it) when custom_fields
\* is present and not a dict
A_mark_qa_checked(record_data) ==
    LET r0 == IF "custom_fields" \in DOMAIN record_data THEN record_data
              ELSE Put(record_data, "custom_fields", << >>)
    IN  IF ~IsDict(r0.custom_fields) THEN Outcome(record_data, FALSE, TRUE)
        ELSE Outcome(Put(r0, "custom_fields", Put(r0.custom_fields, QA_CHECKED, TRUE)),
                     TRUE, FALSE)

(***************************************************************************)
(* The Corrector on one report (AutoCorrectionProcessor.process_qa_report) *)
(* once the report is loaded and the record fetched.  A pass carries the   *)
(* corrected copy, the local corrections_applied, the matcher calls made   *)
(* (in order) and the names of the stats counters incremented.             *)
(***************************************************************************)
CallRec(m, out) == [m |-> m, ret |-> out.ret, raised |-> out.raised]

\* Guarded counting the call whatever the matcher returned
Guarded_counts_calls(pass, guard, m, out, stat) ==
    IF ~guard THEN pass
    ELSE [rec |-> out.rec,
          applied |-> pass.applied + 1,
          calls |-> Append(pass.calls, CallRec(m, out)),
          inc |-> IF out.ret /\ stat # "" THEN pass.inc \cup {stat} ELSE pass.inc]

\* if <guard>: if self.<matcher>(...): corrections_applied += 1; stats[stat] += 1
\* (out is the matcher's outcome on pass.rec, looked at only when guard holds)
Guarded(pass, guard, m, out, stat) ==
    IF ~guard THEN pass
    ELSE [rec |-> out.rec,
          applied |-> pass.applied + (IF out.ret THEN 1 ELSE 0),
          calls |-> Append(pass.calls, CallRec(m, out)),
          inc |-> IF out.ret /\ stat # "" THEN pass.inc \cup {stat} ELSE pass.inc]

\* corrections.related_identifiers: a single object is a one-element list
NormalizeIdentifiers(raw) == IF IsList(raw) THEN raw.list ELSE <<raw.obj>>

\* for identifier in identifiers: if self.add_related_identifier(...): += 1
RECURSIVE RelatedLoop(_, _)
RelatedLoop(pass, identifiers) ==
    IF identifiers = << >> THEN pass
    ELSE RelatedLoop(
            Guarded(pass, TRUE, "related_identifier",
                    P_add_related_identifier(pass.rec, Head(identifiers)), ""),
            Tail(identifiers))

Flag(qa_data, name) == Get(qa_data, name, FALSE)

P_TitleGuard(qa_data) ==
    Flag(qa_data, "title_corrected") /\ "title" \in DOMAIN Get(qa_data, "corrections", << >>)

P_AbstractGuard(qa_data) ==
    /\ Flag(qa_data, "abstract_corrected")
    /\ "abstract" \in DOMAIN Get(qa_data, "corrections", << >>)

P_AffiliationGuard(qa_data) ==
    /\ Flag(qa_data, "affiliation_correction_recommended")
    /\ Get(qa_data, "affiliation_corrections", << >>) # << >>

P_DescriptorGuard(qa_data) ==
    /\ Flag(qa_data, "descriptor_corrected")
    /\ "delete_descriptor" \in DOMAIN Get(qa_data, "corrections", << >>)
    /\ NormalizeDeletions(Get(qa_data, "corrections", << >>).delete_descriptor) # << >>

P_DateGuard(qa_data) ==
    /\ Flag(qa_data, "date_corrected")
    /\ "publication_date" \in DOMAIN Get(qa_data, "corrections", << >>)

P_RelatedGuard(qa_data) ==
    "related_identifiers" \in DOMAIN Get(qa_data, "corrections", << >>)

\* "<key>" in corrections raises TypeError when the report's corrections are
\* null: at the title, abstract, descriptor or date test when that flag is
\* true, and at the related_identifiers test whatever the flags
P_NullCorrections(qa_data) == Get(qa_data, "corrections", << >>) = Null

\* what is done before the test that raises: the affiliation corrections,
\* unless the title or the abstract test raised before them
P_BeforeRaise(qa_data, original_record) ==
    LET p0 == [rec |-> original_record, applied |-> 0, calls |-> << >>, inc |-> {}]
    IN  IF Flag(qa_data, "title_corrected") \/ Flag(qa_data, "abstract_corrected")
        THEN p0
        ELSE Guarded(p0, P_AffiliationGuard(qa_data), "affiliation",
                     P_apply_affiliation_corrections(p0.rec, qa_data.affiliation_corrections),
                     "affiliation_corrections")

P_Corrections(qa_data, original_record) ==
    LET corrections == Get(qa_data, "corrections", << >>)
        p0 == [rec |-> original_record, applied |-> 0, calls |-> << >>, inc |-> {}]
        p1 == Guarded(p0, P_TitleGuard(qa_data), "title",
                      P_apply_title_correction(p0.rec, corrections.title),
                      "title_corrections")
        p2 == Guarded(p1, P_AbstractGuard(qa_data), "abstract",
                      P_apply_abstract_correction(p1.rec, corrections.abstract),
                      "abstract_corrections")
        p3 == Guarded(p2, P_AffiliationGuard(qa_data), "affiliation",
                      P_apply_affiliation_corrections(p2.rec, qa_data.affiliation_corrections),
                      "affiliation_corrections")
        p4 == Guarded(p3, P_DescriptorGuard(qa_data), "descriptor",
                      P_apply_descriptor_deletions(p3.rec, NormalizeDeletions(corrections.delete_descriptor)),
                      "descriptor_corrections")
        p5 == Guarded(p4, P_DateGuard(qa_data), "date",
                      P_apply_date_correction(p4.rec, corrections.publication_date),
                      "date_corrections")
    IN  IF P_RelatedGuard(qa_data)
        THEN RelatedLoop(p5, NormalizeIdentifiers(corrections.related_identifiers))
        ELSE p5

\* stats[k] += 1 for every k in names
Bump(stats, names) == [k \in DOMAIN stats |-> IF k \in names THEN stats[k] + 1 ELSE stats[k]]

\* a variant in which the corrections are made on the fetched record itself
\* (corrected_record = original_record), so both parts show them
Snapshot_shares_record(qa_data, original_record, pass) ==
    [corrected_record |-> pass.rec,
     correction_metadata |->
        [original_record_id |-> qa_data.record_id,
         corrections_applied |-> pass.applied,
         corrections_summary |-> Get(qa_data, "corrections", << >>)],
     original_record |-> pass.rec]

\* the <record-id>_corrected.json document
Snapshot(qa_data, original_record, pass) ==
    [corrected_record |-> pass.rec,
     correction_metadata |->
        [original_record_id |-> qa_data.record_id,
         corrections_applied |-> pass.applied,
         corrections_summary |-> Get(qa_data, "corrections", << >>)],
     original_record |-> original_record]

(***************************************************************************)
(* The applier on one report (INISCorrectionApplier.update_record and      *)
(* mark_record_as_qa_checked_only) once the draft is fetched.              *)
(***************************************************************************)
A_TitleGuard(corrections_data) ==
    "title" \in DOMAIN Get(corrections_data, "corrections", << >>)

A_AffiliationGuard(corrections_data) ==
    Get(corrections_data, "affiliation_corrections", << >>) # << >>

A_OrgGuard(corrections_data) ==
    Get(corrections_data, "organizational_author_corrections", << >>) # << >>

A_Corrections(corrections_data, full_draft) ==
    LET p0 == [rec |-> full_draft, applied |-> 0, calls |-> << >>, inc |-> {}]
        p1 == Guarded(p0, A_TitleGuard(corrections_data), "title",
                      A_apply_title_correction(p0.rec, corrections_data.corrections.title),
                      "title_corrections")
        p2 == Guarded(p1, A_AffiliationGuard(corrections_data), "affiliation",
                      A_apply_affiliation_corrections(p1.rec, corrections_data.affiliation_corrections),
                      "affiliation_corrections")
    IN  Guarded(p2, A_OrgGuard(corrections_data), "organizational_author",
                A_apply_organizational_author_corrections(p2.rec, corrections_data.organizational_author_corrections),
                "organizational_author_corrections")

\* process_qa_folder's choice between update_record and the marker alone
has_applicable_corrections(report_data) ==
    \/ A_TitleGuard(report_data)
    \/ A_AffiliationGuard(report_data)
    \/ A_OrgGuard(report_data)

\* the requests one record causes, in order; the draft is created and read
\* whatever the mode, PUT and publish are sent only when not dry_run
Req(method, target, record_id) == [method |-> method, target |-> target, id |-> record_id]

\* a variant that sends PUT and publish as soon as the draft was created,
\* whatever the draft GET brought back
A_Requests_ignores_empty_draft(record_id, dry, post_ok, get_ok, marked) ==
    <<Req("POST", "draft", record_id)>>
    \o (IF post_ok THEN <<Req("GET", "draft", record_id)>> ELSE << >>)
    \o (IF post_ok /\ marked /\ ~dry
        THEN <<Req("PUT", "draft", record_id), Req("POST", "publish", record_id)>>
        ELSE << >>)

A_Requests(record_id, dry, post_ok, get_ok, marked) ==
    <<Req("POST", "draft", record_id)>>
    \o (IF post_ok THEN <<Req("GET", "draft", record_id)>> ELSE << >>)
    \o (IF post_ok /\ get_ok /\ marked /\ ~dry
        THEN <<Req("PUT", "draft", record_id), Req("POST", "publish", record_id)>>
        ELSE << >>)

(***************************************************************************)
(* Bounds and input sets                                                   *)
(***************************************************************************)
\* longest list of affiliation / organizational-author corrections
MaxPairs == 2

\* most affiliation entries of one creator
MaxAffs == 2

\* most entries of iaea:descriptors_cai_text
MaxDescs == 2

SeqsUpTo(S, n) == UNION {[1..k -> S] : k \in 0..n}

Names == {"A", "B"}

\* an affiliation entry: {"name": ...} or an entry without a name
AffEntries == {[name |-> n] : n \in Names} \cup {[id |-> "ror"]}

AffPair(old, new) == [old_affiliation |-> old, recommended_affiliation |-> new]

\* a chain (A to B, B to A), a pair onto itself, and pairs with an empty side
AffPairs ==
    {AffPair("A", "B"), AffPair("B", "A"), AffPair("A", "C"), AffPair("B", "C"),
     AffPair("A", ""), AffPair("", "B")}

AffCorrections ==
    SeqsUpTo(AffPairs, MaxPairs) \cup {<<Null>>, <<AffPair("A", "B"), Null>>}

OrgPair(old, new) ==
    [old_organizational_author |-> old, recommended_organizational_author |-> new]

OrgCorrections ==
    SeqsUpTo({OrgPair(o, n) : o \in Names, n \in Names \cup {""}}, MaxPairs)
    \cup {<<Null>>, <<OrgPair("B", "A"), Null>>}

Personal(name, affs) ==
    [person_or_org |-> [type |-> "personal", name |-> name], affiliations |-> affs]

Organizational(name, affs) ==
    [person_or_org |-> [type |-> "organizational", name |-> name], affiliations |-> affs]

CreatorLists ==
    {<<Personal("A", l)>> : l \in SeqsUpTo(AffEntries, MaxAffs)}
    \cup {<<Personal("A", l), Organizational("B", <<[name |-> "A"]>>)>> :
            l \in SeqsUpTo(AffEntries, MaxAffs)}
    \cup {<<Organizational("A", << >>), Organizational(o, << >>)>> : o \in Names}
    \cup {<<[person_or_org |-> [type |-> "personal", name |-> "A"]]>>}

Words == {"REACTOR", "Reactor", "Fuel", "fuel"}

DescriptorLists == SeqsUpTo(Words, MaxDescs)

\* corrections.delete_descriptor: a string, or a list of strings
RawDeletions ==
    {JStr(w) : w \in Words \cup {""}}
    \cup {JList(l) : l \in {<< >>, <<"Reactor">>, <<"Reactor", "FUEL">>, <<"fuel", "fuel">>}}

Identifiers ==
    {[identifier |-> "10.1/x"], [identifier |-> "10.1/y", scheme |-> "doi"],
     [identifier |-> ""], [scheme |-> "doi"], Null}

RelatedLists ==
    {<< >>, <<[identifier |-> "10.1/x"]>>,
     <<[identifier |-> "10.1/y"], [scheme |-> "doi"]>>}

BaseMetadata == [title |-> "Old Title", publication_date |-> "2020-01"]

\* the records the matchers are tried on: creators, descriptors and related
\* identifiers each vary over a base record; documents without a metadata
\* or custom_fields section, or with null there, are records too
MatchRecords ==
    {[id |-> "abcde-12345", metadata |-> Put(BaseMetadata, "creators", cl),
      custom_fields |-> << >>] : cl \in CreatorLists}
    \cup {[id |-> "abcde-12345", metadata |-> BaseMetadata,
           custom_fields |-> (DESCRIPTORS :> dl)] : dl \in DescriptorLists}
    \cup {[id |-> "abcde-12345", metadata |-> Put(BaseMetadata, "related_identifiers", rl),
           custom_fields |-> (QA_CHECKED :> FALSE)] : rl \in RelatedLists}
    \cup {[id |-> "abcde-12345"],
          [id |-> "abcde-12345", metadata |-> << >>],
          [id |-> "abcde-12345", metadata |-> Null, custom_fields |-> Null],
          [id |-> "abcde-12345", metadata |-> BaseMetadata]}

\* most report files in the folder of one run
MaxReports == 2

RecordIds == {"abcde-12345", "fghij-67890"}

FullRecord ==
    [id |-> "abcde-12345",
     metadata |->
        [title |-> "Old Title", description |-> "Old abstract",
         publication_date |-> "2020-01",
         creators |-> <<Personal("P", <<[name |-> "A"], [name |-> "B"]>>),
                        Organizational("A", <<[name |-> "A"]>>)>>,
         related_identifiers |-> <<[identifier |-> "10.1/y"]>>],
     custom_fields |-> (QA_CHECKED :> FALSE) @@ (DESCRIPTORS :> <<"REACTOR", "Fuel">>)]

\* what the repository may hold under the first record id: a full record, a
\* record whose metadata is null, one whose custom_fields is null, a bare one
FirstRecords ==
    {FullRecord,
     [FullRecord EXCEPT !.metadata = Null],
     [FullRecord EXCEPT !.custom_fields = Null],
     [id |-> "abcde-12345"]}

SecondRecord ==
    [id |-> "fghij-67890", metadata |-> [title |-> "Second"], custom_fields |-> << >>]

Repositories ==
    {("abcde-12345" :> r) @@ ("fghij-67890" :> SecondRecord) : r \in FirstRecords}

\* a report file that is not JSON
BadJson == [bad_json |-> TRUE]

For(record_id, fields) == fields @@ [record_id |-> record_id]

AllKinds ==
    [title_corrected |-> TRUE, abstract_corrected |-> TRUE, descriptor_corrected |-> TRUE,
     date_corrected |-> TRUE, affiliation_correction_recommended |-> TRUE,
     corrections |->
        [title |-> "New Title", abstract |-> "New abstract",
         delete_descriptor |-> JList(<<"fuel">>), publication_date |-> "2021-05",
         related_identifiers |-> JObj([identifier |-> "10.1/x"])],
     affiliation_corrections |-> <<AffPair("A", "C")>>,
     organizational_author_corrections |-> <<OrgPair("A", "B")>>]

\* the QA reports a folder may hold: each correction kind with and without
\* its flag and its key, all kinds at once, none, and the unusable files
ReportFields ==
    {[title_corrected |-> TRUE, corrections |-> [title |-> "New Title"]],
     [title_corrected |-> FALSE, corrections |-> [title |-> "New Title"]],
     [title_corrected |-> TRUE, corrections |-> << >>],
     [abstract_corrected |-> TRUE, corrections |-> [abstract |-> "New abstract"]],
     [descriptor_corrected |-> TRUE,
      corrections |-> [delete_descriptor |-> JStr("Reactor")]],
     [descriptor_corrected |-> FALSE,
      corrections |-> [delete_descriptor |-> JList(<<"Reactor", "fuel">>)]],
     [date_corrected |-> TRUE, corrections |-> [publication_date |-> "2021-05"]],
     [corrections |->
        [related_identifiers |->
            JList(<<[identifier |-> "10.1/x"], [identifier |-> "10.1/x"]>>)]],
     [affiliation_correction_recommended |-> TRUE,
      affiliation_corrections |-> <<AffPair("A", "C"), AffPair("B", "C")>>],
     [affiliation_correction_recommended |-> FALSE,
      affiliation_corrections |-> <<AffPair("A", "C")>>],
     [organizational_author_corrections |-> <<OrgPair("A", "B")>>],
     [scope_ok |-> TRUE, recommendations |-> << >>],
     AllKinds}

\* the reports that differ in what the applier reads: the title key, the two
\* correction lists and the record id
A_ReportFields ==
    {[title_corrected |-> TRUE, corrections |-> [title |-> "New Title"]],
     [title_corrected |-> FALSE, corrections |-> [title |-> "New Title"]],
     [title_corrected |-> TRUE, corrections |-> << >>],
     [affiliation_correction_recommended |-> FALSE,
      affiliation_corrections |-> <<AffPair("A", "C")>>],
     [organizational_author_corrections |-> <<OrgPair("A", "B")>>],
     [scope_ok |-> TRUE, recommendations |-> << >>],
     AllKinds}

\* an affiliation correction in a report whose corrections are null
NullCorrections ==
    [corrections |-> Null, affiliation_correction_recommended |-> TRUE,
     affiliation_corrections |-> <<AffPair("A", "B")>>]

Reports ==
    {For("abcde-12345", f) : f \in ReportFields}
    \cup {For("fghij-67890", [title_corrected |-> TRUE,
                              corrections |-> [title |-> "New Title"]]),
          [title_corrected |-> TRUE, corrections |-> [title |-> "New Title"]],
          For("", AllKinds),
          For("abcde-12345", NullCorrections),
          BadJson}

A_Reports ==
    {For("abcde-12345", f) : f \in A_ReportFields}
    \cup {For("fghij-67890", [title_corrected |-> TRUE,
                              corrections |-> [title |-> "New Title"]]),
          [title_corrected |-> TRUE, corrections |-> [title |-> "New Title"]],
          BadJson}

(***************************************************************************)
(* The daily driver (INISQAAutomation and its main): configuration from   *)
(* the environment, the temporary directory, the four steps and cleanup.  *)
(* An optional boolean is "None", "True" or "False".                       *)
(***************************************************************************)
DEFAULT_INIS_ACCESS_TOKEN == "1hknPZe1RjjJYAYYuTcxG0rMQ47agIIRg7a40QQqfhQEfUpsysqrHV8HCFN8"

required_vars == {"AZURE_OPENAI_API_KEY", "FROM_EMAIL", "EMAIL_APP_PASSWORD"}

\* os.getenv(var, default): the default only when the variable is unset
Getenv(environ, var, default) ==
    IF var \in DOMAIN environ THEN environ[var] ELSE default

\* load_config: the token falls back to the built-in one; a required
\* variable that is unset or empty is missing (ValueError)
load_config(environ) ==
    [access_token |-> Getenv(environ, "INIS_ACCESS_TOKEN", DEFAULT_INIS_ACCESS_TOKEN),
     missing_vars |-> {v \in required_vars : Getenv(environ, v, "") = ""}]

NoApplier == [constructed |-> FALSE, dry_run |-> FALSE]

\* the driver before its constructor ran
NewAutomation(args, environ) ==
    [args |-> args, environ |-> environ, pc |-> "start", access_token |-> "",
     temp_dir |-> "none", qa_date_dir |-> FALSE, corrected_date_dir |-> FALSE,
     apply_corrections |-> "None", success |-> TRUE, steps |-> << >>,
     results |-> << >>, applier |-> NoApplier, cleanup |-> "none", result |-> FALSE, exit_code |-> -1]

\* __init__: load_config may raise before the temporary directory is made
Construct(self) ==
    LET config == load_config(self.environ)
    IN  IF config.missing_vars # {}
        THEN [self EXCEPT !.pc = "exited", !.exit_code = 1]
        ELSE [self EXCEPT !.pc = "main", !.access_token = config.access_token,
                          !.temp_dir = "exists"]

\* a step method was called and gave ret: both are kept in the order of
\* the calls
Step(self, name, ret) ==
    [d |-> [self EXCEPT !.steps = Append(self.steps, name),
                        !.results = Append(self.results, ret)],
     ret |-> ret]

\* run_qa_checker: makes the dated results directory, then runs the checker
\* script; true iff it exits with code 0
run_qa_checker(self, returncode_zero) ==
    Step([self EXCEPT !.qa_date_dir = TRUE], "qa", returncode_zero)

\* process_corrections: makes the dated output directory, and needs the
\* results directory of the same automation object
process_corrections(self, raised) ==
    Step([self EXCEPT !.corrected_date_dir = TRUE], "corrections",
         ~raised /\ self.qa_date_dir)

\* send_daily_report
send_daily_report(self, sent) ==
    Step(self, "email", self.qa_date_dir /\ sent)

\* apply_corrections_to_inis: skipped (true) without a token; otherwise the
\* applier is built with dry_run = not apply_changes and run over the folder
apply_corrections_to_inis(self, apply_changes, folder_ok) ==
    IF self.access_token = "" THEN Step(self, "apply", TRUE)
    ELSE IF self.qa_date_dir
         THEN Step([self EXCEPT !.applier = [constructed |-> TRUE,
                                             dry_run |-> ~apply_changes]],
                   "apply", folder_ok)
         ELSE Step(self, "apply", FALSE)

\* cleanup_temp_files: rmtree of the temporary directory, errors swallowed
cleanup_temp_files(self, rmtree_ok) ==
    IF self.temp_dir # "exists" THEN self
    ELSE IF rmtree_ok THEN [self EXCEPT !.temp_dir = "removed", !.cleanup = "removed"]
    ELSE [self EXCEPT !.cleanup = "failed"]

\* a driver that never finds the token
TokenAvailable_never(inis_token) == FALSE

\* bool(inis_token)
TokenAvailable(inis_token) == inis_token # ""

\* main's translation of the two flags into the optional argument
ApplyArgument(args) ==
    IF args.apply_corrections THEN "True"
    ELSE IF args.no_apply_corrections THEN "False"
    ELSE "None"

\* run_daily_automation's resolution of a missing argument
ResolveApply(apply_corrections, inis_token) ==
    IF apply_corrections = "None" THEN TokenAvailable(inis_token)
    ELSE apply_corrections = "True"

\* sys.exit(0 if success else 1)
Exit(self, success) ==
    [self EXCEPT !.pc = "exited", !.result = success,
                 !.exit_code = IF success THEN 0 ELSE 1]

\* the command lines: every combination of main's six switches
Arguments ==
    [qa_only : BOOLEAN, corrections_only : BOOLEAN, apply_only : BOOLEAN,
     email_only : BOOLEAN, apply_corrections : BOOLEAN,
     no_apply_corrections : BOOLEAN]

RequiredSet ==
    [AZURE_OPENAI_API_KEY |-> "key", FROM_EMAIL |-> "qa@example.org",
     EMAIL_APP_PASSWORD |-> "secret"]

\* the environments: the required variables set, one unset, one empty; the
\* INIS token unset, empty or set
Environs ==
    {r @@ t : r \in {RequiredSet,
                     [AZURE_OPENAI_API_KEY |-> "key", EMAIL_APP_PASSWORD |-> "secret"],
                     [RequiredSet EXCEPT !.AZURE_OPENAI_API_KEY = ""]},
              t \in {<< >>, [INIS_ACCESS_TOKEN |-> ""],
                     [INIS_ACCESS_TOKEN |-> "env-token"]}}

(***************************************************************************)
(* The aggregator (QAEmailSender.create_summary_report): one pass over    *)
(* the report files of a folder, building the counters, the sets of       *)
(* record ids and the per-record lists of the daily email.                *)
(***************************************************************************)
ZeroSummary ==
    [records_checked |-> 0, title_corrections |-> 0, affiliation_corrections |-> 0,
     organizational_author_corrections |-> 0, abstract_corrections |-> 0,
     descriptor_corrections |-> 0, date_corrections |-> 0, errors |-> 0]

\* the aggregates before the first file
EmptyReportData ==
    [summary |-> ZeroSummary, duplicates |-> {}, out_of_scope |-> {},
     suspicious_content |-> {}, historical_context |-> {},
     descriptor_deletions |-> << >>, abstract_recommendations |-> << >>,
     general_recommendations |-> << >>, corrections_summary |-> << >>,
     errors |-> << >>]

\* json.load gave something other than an object: data.get raises
NotAnObject(data) == data = Null \/ "list" \in DOMAIN data

\* defaultdict(list)[record_id].extend(items)
Extend(d, record_id, items) == Put(d, record_id, Get(d, record_id, << >>) \o items)

\* the order in which a report lists its correction keys
CorrectionKeys == <<"title", "abstract", "delete_descriptor", "publication_date">>

\* the "key: value" lines of a report's corrections, delete_descriptor and
\* abstract left out; a line is kept as the pair it is formatted from
SummaryLines(corrections) ==
    LET keys == SelectSeq(CorrectionKeys,
                          LAMBDA k : k \in DOMAIN corrections
                                     /\ k \notin {"delete_descriptor", "abstract"})
    IN  [i \in DOMAIN keys |-> [key |-> keys[i], value |-> corrections[keys[i]]]]

\* the body of the loop for a file that parsed into the object `data`
\* a variant of one report's aggregation that counts a title correction for
\* every report that proposes a title, whatever its flag says
AggregateReport_counts_proposed_titles(acc, stem, data) ==
    [acc EXCEPT
        !.summary.records_checked = @ + 1,
        !.summary.title_corrections =
            @ + (IF "title_corrected" \in DOMAIN data THEN 1 ELSE 0)]

AggregateReport(acc, stem, data) ==
    LET record_id == Get(data, "record_id", stem)
        corrections == Get(data, "corrections", << >>)
        affs == Get(data, "affiliation_corrections", << >>)
        orgs == Get(data, "organizational_author_corrections", << >>)
        delete_desc == Get(corrections, "delete_descriptor", JList(<< >>))
        summary ==
            [acc.summary EXCEPT
                !.records_checked = @ + 1,
                !.title_corrections = @ + (IF Flag(data, "title_corrected") THEN 1 ELSE 0),
                !.abstract_corrections =
                    @ + (IF Flag(data, "abstract_corrected") THEN 1 ELSE 0),
                !.descriptor_corrections =
                    @ + (IF Flag(data, "descriptor_corrected") THEN 1 ELSE 0),
                !.date_corrections = @ + (IF Flag(data, "date_corrected") THEN 1 ELSE 0),
                !.affiliation_corrections =
                    @ + (IF Flag(data, "affiliation_correction_recommended")
                         THEN Len(affs) ELSE 0),
                !.organizational_author_corrections = @ + Len(orgs)]
        Mark(S, hit) == IF hit THEN S \cup {record_id} ELSE S
    IN  [acc EXCEPT
            !.summary = summary,
            !.out_of_scope = Mark(@, ~Get(data, "scope_ok", TRUE)),
            !.duplicates = Mark(@, Flag(data, "duplicate_by_title")
                                   \/ Flag(data, "duplicate_by_doi")),
            !.suspicious_content = Mark(@, Flag(data, "suspicious_content")),
            !.historical_context = Mark(@, Flag(data, "historical_context_required")),
            !.descriptor_deletions =
                IF "delete_descriptor" \in DOMAIN corrections
                THEN Extend(@, record_id, NormalizeDeletions(delete_desc))
                ELSE @,
            !.abstract_recommendations =
                IF Flag(data, "abstract_corrected") /\ "abstract" \in DOMAIN corrections
                THEN Put(@, record_id, corrections.abstract)
                ELSE @,
            !.general_recommendations =
                IF Get(data, "recommendations", << >>) # << >>
                THEN Extend(@, record_id, data.recommendations)
                ELSE @,
            !.corrections_summary =
                IF SummaryLines(corrections) # << >>
                THEN Extend(@, record_id, SummaryLines(corrections))
                ELSE @]

\* a parsed file on which the loop body raises: the file is not an object,
\* or its corrections are null
AggregateRaises(data) ==
    NotAnObject(data) \/ ~IsDict(Get(data, "corrections", << >>))

\* a variant of the loop that counts every file as a checked record, the
\* files that are not JSON included
AggregateFile_counts_unparsed(acc, file) ==
    IF file.data = BadJson
    THEN [acc EXCEPT !.summary.errors = @ + 1,
                     !.summary.records_checked = @ + 1,
                     !.errors = Append(@, [could_not_parse |-> file.stem])]
    ELSE AggregateReport(acc, file.stem, file.data)

\* one file of the loop: a file that is not JSON is counted and noted as an
\* error, and the loop goes on
AggregateFile(acc, file) ==
    IF file.data = BadJson
    THEN [acc EXCEPT !.summary.errors = @ + 1,
                     !.errors = Append(@, [could_not_parse |-> file.stem])]
    ELSE AggregateReport(acc, file.stem, file.data)

\* most report files in the folder the aggregator scans
MaxFiles == 3

ReportFile(stem, data) == [stem |-> stem, data |-> data]

\* the report files a folder may hold, each under its own file name: reports
\* with and without each flag, one without a record_id, two that are not
\* JSON, one that is JSON but no object, one whose corrections are null
SummaryFiles ==
    {ReportFile("abcde-12345",
                [record_id |-> "abcde-12345", title_corrected |-> TRUE,
                 corrections |-> [title |-> "New Title"]]),
     ReportFile("fghij-67890",
                [record_id |-> "fghij-67890", title_corrected |-> FALSE,
                 scope_ok |-> FALSE, recommendations |-> <<"Check scope">>]),
     ReportFile("klmno-11111",
                [abstract_corrected |-> TRUE, duplicate_by_doi |-> TRUE,
                 corrections |-> [abstract |-> "New abstract",
                                  delete_descriptor |-> JStr("Reactor")]]),
     ReportFile("pqrst-22222",
                [record_id |-> "abcde-12345", title_corrected |-> TRUE,
                 date_corrected |-> TRUE, descriptor_corrected |-> TRUE,
                 affiliation_correction_recommended |-> TRUE,
                 affiliation_corrections |-> <<AffPair("A", "C"), AffPair("B", "C")>>,
                 organizational_author_corrections |-> <<OrgPair("A", "B")>>,
                 corrections |-> [title |-> "Another Title",
                                  publication_date |-> "2021-05",
                                  delete_descriptor |-> JList(<<"fuel", "Reactor">>)]]),
     ReportFile("uvwxy-33333",
                [record_id |-> "uvwxy-33333",
                 affiliation_correction_recommended |-> FALSE,
                 affiliation_corrections |-> <<AffPair("A", "C")>>,
                 suspicious_content |-> TRUE, historical_context_required |-> TRUE]),
     ReportFile("broken-1", BadJson),
     ReportFile("broken-2", BadJson),
     ReportFile("array-1", JList(<< >>)),
     ReportFile("nulls-1", [record_id |-> "nulls-1", title_corrected |-> TRUE,
                            corrections |-> Null])}

(***************************************************************************)
(* The QA checker (o4-INISQAChecker.py): for each record of the batch the  *)
(* duplicate searches, the language-model call with its retries, the       *)
(* deterministic checks and the report file.                               *)
(***************************************************************************)
\* for attempt in range(4): one initial try and up to 3 retries
MaxAttempts == 4

\* most records in the batch
MaxBatch == 2

\* sleep = 2 ** attempt: the seconds slept after a transient error
Backoff(attempt) == 2 ^ attempt

\* a reply that json.loads refuses
NotJson == [not_json |-> TRUE]

\* the assistant's reply: its body, bare or inside a ``` fence
Reply(fenced, body) == [fenced |-> fenced, body |-> body]

\* parse_assistant_json: the fence is stripped, then json.loads parses the
\* body or raises JSONDecodeError
parse_assistant_json(raw) ==
    IF raw.body = NotJson
    THEN [raised |-> TRUE, json |-> << >>]
    ELSE [raised |-> FALSE, json |-> raw.body]

\* the first identifier of the record whose scheme is doi, or None
DoiOf(record) ==
    LET ids == Get(Get(record, "metadata", << >>), "identifiers", << >>)
        dois == {i \in DOMAIN ids : Get(ids[i], "scheme", "") = "doi"}
    IN  IF dois = {} THEN ""
        ELSE Get(ids[CHOOSE i \in dois : \A j \in dois : i <= j], "identifier", "")

\* an entry of the repository's search index
IndexEntry(id, doi, title) == [id |-> id, doi |-> doi, title |-> title]

\* hits.total of the search for the records whose field has the value, with
\* the clause AND NOT id: xid when the record has an id
SearchTotal_without_exclusion(repo, field, value, xid) ==
    Cardinality({e \in repo : e[field] = value})

SearchTotal(repo, field, value, xid) ==
    Cardinality({e \in repo : e[field] = value /\ (xid = "" \/ e.id # xid)})

\* curl_json of a search: the answer's hits.total, or {} when curl fails or
\* the answer is not JSON, which reads as a total of 0
SearchHits(repo, field, value, xid, ok) ==
    IF ok THEN SearchTotal(repo, field, value, xid) ELSE 0

TitleOf(record) == Get(Get(record, "metadata", << >>), "title", "")

\* check_duplicates: a search is made for a record that has a DOI, and one
\* for a record that has a title; a flag is set when its search has a hit
check_duplicates(record, repo, doi_ok, title_ok) ==
    LET xid == Get(record, "id", "")
    IN  [duplicate_by_title |->
            TitleOf(record) # ""
            /\ SearchHits(repo, "title", TitleOf(record), xid, title_ok) > 0,
         duplicate_by_doi |->
            DoiOf(record) # ""
            /\ SearchHits(repo, "doi", DoiOf(record), xid, doi_ok) > 0]

\* what became of the two searches for a record: not made, failed, answered
Searched(record, doi_ok, title_ok) ==
    [doi |-> IF DoiOf(record) = "" THEN "none" ELSE IF doi_ok THEN "ok" ELSE "failed",
     title |-> IF TitleOf(record) = "" THEN "none" ELSE IF title_ok THEN "ok" ELSE "failed"]

NotSearched == [doi |-> "none", title |-> "none"]

\* the repository's index: the batch's own records alone, with another
\* record under the same DOI, and with one more under the same title
CheckerRepositories ==
    LET own == {IndexEntry("abcde-12345", "10.1/x", "Old Title"),
                IndexEntry("fghij-67890", "", "")}
        same_doi == IndexEntry("zzzzz-00000", "10.1/x", "Other Title")
        same_title == IndexEntry("yyyyy-11111", "", "Old Title")
    IN  {own, own \cup {same_doi}, own \cup {same_doi, same_title}}

\* the publication dates the checks are tried on, each with its characters
DateChars ==
       "2999-01" :> <<"2", "9", "9", "9", "-", "0", "1">>
    @@ "2999-01-15" :> <<"2", "9", "9", "9", "-", "0", "1", "-", "1", "5">>
    @@ "2020-01" :> <<"2", "0", "2", "0", "-", "0", "1">>
    @@ "not-a-date" :> <<"n", "o", "t", "-", "a", "-", "d", "a", "t", "e">>
    @@ "2999-02-29" :> <<"2", "9", "9", "9", "-", "0", "2", "-", "2", "9">>
    @@ "2996-02-29" :> <<"2", "9", "9", "6", "-", "0", "2", "-", "2", "9">>
    @@ "2999" :> <<"2", "9", "9", "9">>
    @@ "2999-1-5" :> <<"2", "9", "9", "9", "-", "1", "-", "5">>
    @@ "2026-11-02" :> <<"2", "0", "2", "6", "-", "1", "1", "-", "0", "2">>
    @@ "2026-11-03" :> <<"2", "0", "2", "6", "-", "1", "1", "-", "0", "3">>
    @@ "2999-13" :> <<"2", "9", "9", "9", "-", "1", "3">>
    @@ "2999-01-01" :> <<"2", "9", "9", "9", "-", "0", "1", "-", "0", "1">>
    @@ "2999-01-15T00:00" :> <<"2", "9", "9", "9", "-", "0", "1", "-", "1", "5", "T", "0", "0", ":", "0", "0">>
    @@ "2999/01/15" :> <<"2", "9", "9", "9", "/", "0", "1", "/", "1", "5">>
    @@ "2999-00" :> <<"2", "9", "9", "9", "-", "0", "0">>
    @@ "2999-01-" :> <<"2", "9", "9", "9", "-", "0", "1", "-">>

\* the lead record ids the checks are tried on, each with its characters
LeadChars ==
       "ab12c-xy99z" :> <<"a", "b", "1", "2", "c", "-", "x", "y", "9", "9", "z">>
    @@ "AB12C-XY99Z" :> <<"A", "B", "1", "2", "C", "-", "X", "Y", "9", "9", "Z">>
    @@ "ab12c_xy99z" :> <<"a", "b", "1", "2", "c", "_", "x", "y", "9", "9", "z">>
    @@ "abcde-12345" :> <<"a", "b", "c", "d", "e", "-", "1", "2", "3", "4", "5">>
    @@ "fghij-67890" :> <<"f", "g", "h", "i", "j", "-", "6", "7", "8", "9", "0">>
    @@ "ABCDE-12345" :> <<"A", "B", "C", "D", "E", "-", "1", "2", "3", "4", "5">>
    @@ "ab12c-xy99" :> <<"a", "b", "1", "2", "c", "-", "x", "y", "9", "9">>
    @@ "ab12c-xy99zz" :> <<"a", "b", "1", "2", "c", "-", "x", "y", "9", "9", "z", "z">>
    @@ "ab12cxy99z0" :> <<"a", "b", "1", "2", "c", "x", "y", "9", "9", "z", "0">>
    @@ "ab12c-xy 9z" :> <<"a", "b", "1", "2", "c", "-", "x", "y", " ", "9", "z">>

\* the characters of a string of either table; the empty string has none
Chars(s) ==
    IF s \in DOMAIN DateChars THEN DateChars[s]
    ELSE IF s \in DOMAIN LeadChars THEN LeadChars[s]
    ELSE << >>

DigitValue ==
    "0" :> 0 @@ "1" :> 1 @@ "2" :> 2 @@ "3" :> 3 @@ "4" :> 4 @@ "5" :> 5 @@ "6" :> 6
    @@ "7" :> 7 @@ "8" :> 8 @@ "9" :> 9

\* [a-z0-9]
LowerAlnum ==
    DOMAIN DigitValue
    \cup {"a", "b", "c", "d", "e", "f", "g", "h", "i", "j", "k", "l", "m", "n", "o", "p",
          "q", "r", "s", "t", "u", "v", "w", "x", "y", "z"}

\* a variant of the pattern that takes capitals too
LeadPattern_any_case(cs) ==
    /\ Len(cs) = 11
    /\ cs[6] = "-"
    /\ \A i \in (1..5) \cup (7..11) :
          cs[i] \in LowerAlnum \cup {"A", "B", "C", "D", "E", "X", "Y", "Z"}

\* re.fullmatch(r'[a-z0-9]{5}-[a-z0-9]{5}', value)
LeadPattern(cs) ==
    /\ Len(cs) = 11
    /\ cs[6] = "-"
    /\ \A i \in (1..5) \cup (7..11) : cs[i] \in LowerAlnum

\* is_valid_lead_record_id: the value is a string and matches the pattern
is_valid_lead_record_id(value) == LeadPattern(Chars(value))

\* the number a run of digits spells
RECURSIVE NumberOf(_)
NumberOf(cs) ==
    IF cs = << >> THEN 0 ELSE 10 * NumberOf(SubSeq(cs, 1, Len(cs) - 1)) + DigitValue[cs[Len(cs)]]

IsDigits(cs) == \A i \in DOMAIN cs : cs[i] \in DOMAIN DigitValue

IsLeap(y) == (y % 4 = 0 /\ y % 100 # 0) \/ y % 400 = 0

DaysIn(y, m) ==
    IF m = 2 THEN (IF IsLeap(y) THEN 29 ELSE 28)
    ELSE IF m \in {4, 6, 9, 11} THEN 30 ELSE 31

\* the fields of the string between its hyphens
Fields(cs) ==
    LET hyphens == {i \in DOMAIN cs : cs[i] = "-"}
        cuts == {0} \cup hyphens \cup {Len(cs) + 1}
        NextCut(i) == CHOOSE j \in cuts : j > i /\ \A k \in cuts : k > i => j <= k
        Start(n) == IF n = 1 THEN 0
                    ELSE CHOOSE i \in hyphens : Cardinality({h \in hyphens : h < i}) = n - 2
    IN  [n \in 1..(Cardinality(hyphens) + 1) |->
            SubSeq(cs, Start(n) + 1, NextCut(Start(n)) - 1)]

\* %Y: four digits; %m and %d: one or two digits, not zero
YearField(f) == Len(f) = 4 /\ IsDigits(f) /\ NumberOf(f) >= 1

SmallField(f, most) == Len(f) \in {1, 2} /\ IsDigits(f) /\ NumberOf(f) \in 1..most

NoDate == [ok |-> FALSE, date |-> <<0, 0, 0>>]

\* datetime.strptime(date_str, "%Y-%m-%d"): the date, or ValueError
StrptimeYMD(cs) ==
    LET f == Fields(cs)
    IN  IF /\ Len(f) = 3
           /\ YearField(f[1])
           /\ SmallField(f[2], 12)
           /\ SmallField(f[3], 31)
           /\ NumberOf(f[3]) <= DaysIn(NumberOf(f[1]), NumberOf(f[2]))
        THEN [ok |-> TRUE, date |-> <<NumberOf(f[1]), NumberOf(f[2]), NumberOf(f[3])>>]
        ELSE NoDate

\* datetime.strptime(date_str, "%Y-%m"): the first day of the month, or
\* ValueError
StrptimeYM(cs) ==
    LET f == Fields(cs)
    IN  IF Len(f) = 2 /\ YearField(f[1]) /\ SmallField(f[2], 12)
        THEN [ok |-> TRUE, date |-> <<NumberOf(f[1]), NumberOf(f[2]), 1>>]
        ELSE NoDate

\* parsed > datetime.now(): the parsed moment is midnight, so it is after
\* now exactly when its day is after today
After(date, today) ==
    \/ date[1] > today[1]
    \/ date[1] = today[1] /\ date[2] > today[2]
    \/ date[1] = today[1] /\ date[2] = today[2] /\ date[3] > today[3]

\* a variant that does not fall back on the month format
is_future_date_days_only(date_str, today) ==
    StrptimeYMD(Chars(date_str)).ok /\ After(StrptimeYMD(Chars(date_str)).date, today)

\* is_future_date: the first format, on ValueError the second, on ValueError
\* False
is_future_date(date_str, today) ==
    LET days == StrptimeYMD(Chars(date_str))
        month == StrptimeYM(Chars(date_str))
    IN  IF days.ok THEN After(days.date, today)
        ELSE IF month.ok THEN After(month.date, today)
        ELSE FALSE

\* datetime.now() of the checker's pass
Today == <<2026, 11, 2>>

\* the recommendations of the deterministic checks (each message goes on to
\* name the value it is about)
ExtraRecommendations(rec, today) ==
    LET lead_id == Get(Get(rec, "custom_fields", << >>), "iaea:lead_record_id", "")
        pub_date == Get(Get(rec, "metadata", << >>), "publication_date", "")
    IN  (IF lead_id # "" /\ ~is_valid_lead_record_id(lead_id)
         THEN <<"Lead Record appears to be invalid">> ELSE << >>)
        \o (IF pub_date # "" /\ is_future_date(pub_date, today)
            THEN <<"Publication date is in the future">> ELSE << >>)

\* dict.update: the keys of new are set in old
Update(old, new) ==
    [k \in (DOMAIN old) \cup (DOMAIN new) |-> IF k \in DOMAIN new THEN new[k] ELSE old[k]]

\* the report of one record: the parsed reply, or the error object for a
\* reply that is not JSON, updated with the duplicate flags and the record's
\* id (None without one), its recommendations extended by the deterministic
\* ones
ReportOf(rec, flags, ai_raw) ==
    LET parsed == parse_assistant_json(ai_raw)
        ai_json == IF parsed.raised
                   THEN [error |-> "Assistant returned non-JSON", raw_preview |-> "raw"]
                   ELSE parsed.json
        keyed == Update(Update(ai_json, flags),
                        [record_id |-> IF "id" \in DOMAIN rec THEN JStr(rec.id) ELSE Null])
        extra == ExtraRecommendations(rec, Today)
    IN  IF extra = << >> THEN keyed
        ELSE Put(keyed, "recommendations", Get(keyed, "recommendations", << >>) \o extra)

Truthy(d, k) == k \in DOMAIN d /\ d[k] # << >>

\* the test needs_output is first given, which the assignment after it
\* no longer lets decide
NeedsOutput_filtered(ai_json) ==
    \/ "error" \in DOMAIN ai_json
    \/ Truthy(ai_json, "corrections")
    \/ Truthy(ai_json, "recommendations")
    \/ Truthy(ai_json, "affiliation_corrections")

\* needs_output = True: every report is written
NeedsOutput(ai_json) == TRUE

\* a record of the batch under its source file's name
BatchRecord(stem, rec) == [stem |-> stem, rec |-> rec]

\* a record with a DOI and a past date, a record with an invalid lead id and
\* a future date, and a fetched record without an id (named record_<i>)
CheckerRecords ==
    {BatchRecord("abcde-12345",
                 [id |-> "abcde-12345",
                  metadata |-> [title |-> "Old Title", publication_date |-> "2020-01",
                                identifiers |-> <<[scheme |-> "doi",
                                                   identifier |-> "10.1/x"]>>],
                  custom_fields |-> ("iaea:lead_record_id" :> "fghij-67890")]),
     BatchRecord("fghij-67890",
                 [id |-> "fghij-67890",
                  metadata |-> [title |-> "", publication_date |-> "2999-01-01"],
                  custom_fields |-> ("iaea:lead_record_id" :> "ABCDE-12345")]),
     BatchRecord("record_0",
                 [metadata |-> [title |-> "Old Title"], custom_fields |-> << >>])}

\* the batches: records under distinct file names
Batches ==
    {b \in SeqsUpTo(CheckerRecords, MaxBatch) :
        \A j, k \in DOMAIN b : j # k => b[j].stem # b[k].stem}

\* the replies: corrections, nothing to report (bare and fenced), a
\* recommendation with a duplicate flag of the assistant's own, and a reply
\* that is not JSON
Replies ==
    {Reply(FALSE, [title_corrected |-> TRUE, corrections |-> [title |-> "New Title"]]),
     Reply(FALSE, << >>),
     Reply(TRUE, [scope_ok |-> TRUE, corrections |-> << >>, recommendations |-> << >>]),
     Reply(FALSE, [scope_ok |-> FALSE, recommendations |-> <<"Check scope">>,
                   duplicate_by_doi |-> TRUE]),
     Reply(FALSE, NotJson)}

(***************************************************************************)
(* State                                                                   *)
(***************************************************************************)
VARIABLES
    orig,           \* matcher bench: the record as fetched
    prev,           \* matcher bench: the record before the last matcher call
    record,         \* matcher bench: the record the matchers change in place
    call,           \* matcher bench: the last call (matcher, argument, results)
    run,            \* which component runs over the folder: Corrector or applier
    nfiles,         \* number of report files in the folder
    done,           \* report files the loop has handled
    finished,       \* the loop is over and the final statistics are out
    live,           \* the repository: record id -> published record
    drafts,         \* the repository: record id -> draft, for the ids that have one
    p_stats,        \* AutoCorrectionProcessor.stats
    output_files,   \* record id -> the <record-id>_corrected.json written
    stats_file,     \* correction_statistics.json, << >> until written
    returned,       \* process_qa_reports' local corrections_applied
    dry_run,        \* INISCorrectionApplier.dry_run
    a_stats,        \* INISCorrectionApplier.stats
    automation,     \* the daily driver: arguments, environment, position, outcome
    scan,           \* the aggregator: files read, position, aggregates
    checker,        \* the QA checker: batch, position, attempts, report files
    probe,          \* the deterministic checks tried on one record
    last            \* what handling the last report file did

matchVars == <<orig, prev, record, call>>

runVars ==
    <<run, nfiles, done, finished, live, drafts, p_stats, output_files, stats_file,
      returned, dry_run, a_stats, last>>

driverVars == <<automation>>

summaryVars == <<scan>>

checkerVars == <<checker>>

probeVars == <<probe>>

vars == <<matchVars, runVars, driverVars, summaryVars, checkerVars, probeVars>>

P_ZeroStats ==
    [records_processed |-> 0, records_corrected |-> 0, title_corrections |-> 0,
     affiliation_corrections |-> 0, abstract_corrections |-> 0,
     descriptor_corrections |-> 0, date_corrections |-> 0, errors |-> 0]

A_ZeroStats ==
    [records_processed |-> 0, records_updated |-> 0, records_qa_checked_only |-> 0,
     title_corrections |-> 0, affiliation_corrections |-> 0,
     organizational_author_corrections |-> 0, errors |-> 0]

NoOutcome == [post |-> "none", get |-> "none", put |-> "none", publish |-> "none"]

NoReport ==
    [kind |-> "none", report |-> << >>, requests |-> << >>, calls |-> << >>,
     applied |-> 0, doc |-> << >>, marked |-> FALSE, ret |-> FALSE,
     outcome |-> NoOutcome]

\* the variables of a folder run while no folder run is modelled
RunIdle ==
    /\ run = "none"
    /\ nfiles = 0
    /\ done = 0
    /\ finished = FALSE
    /\ live = << >>
    /\ drafts = << >>
    /\ p_stats = P_ZeroStats
    /\ output_files = << >>
    /\ stats_file = << >>
    /\ returned = 0
    /\ dry_run = TRUE
    /\ a_stats = A_ZeroStats
    /\ last = NoReport

\* the driver while no driver run is modelled
DriverIdle ==
    automation = NewAutomation([qa_only |-> FALSE, corrections_only |-> FALSE,
                                apply_only |-> FALSE, email_only |-> FALSE,
                                apply_corrections |-> FALSE,
                                no_apply_corrections |-> FALSE], << >>)

\* the deterministic checks while none is tried
NoProbe == [pc |-> "idle", rec |-> << >>, today |-> Today, recommendations |-> << >>]

ProbeIdle == probe = NoProbe

\* the checker while no batch is modelled
NoChecker ==
    [pc |-> "idle", repo |-> {}, batch |-> << >>, i |-> 1, attempt |-> 0, calls |-> 0,
     tries |-> 0, waits |-> << >>,
     searched |-> NotSearched,
     flags |-> [duplicate_by_title |-> FALSE, duplicate_by_doi |-> FALSE],
     reports |-> << >>, writes |-> << >>]

CheckerIdle == checker = NoChecker

\* the aggregator while no scan is modelled
NoScan == [exists |-> FALSE, files |-> << >>, pc |-> "idle", report_data |-> EmptyReportData]

SummaryIdle == scan = NoScan

NoCall == [op |-> "none", arg |-> << >>, rets |-> << >>, hits |-> << >>, raised |-> FALSE]

MatchIdle ==
    /\ orig = << >>
    /\ prev = << >>
    /\ record = << >>
    /\ call = NoCall

(***************************************************************************)
(* The matchers applied to one record: a matcher is called on the fetched  *)
(* record, and the same call may then be repeated on the result.           *)
(***************************************************************************)
MatchInit ==
    /\ ProbeIdle
    /\ CheckerIdle
    /\ SummaryIdle
    /\ orig \in MatchRecords
    /\ prev = orig
    /\ record = orig
    /\ call = NoCall
    /\ RunIdle
    /\ DriverIdle

\* the outcome of matcher `op` on record r with argument arg
Dispatch(op, r, arg) ==
    CASE op = "P_title" -> P_apply_title_correction(r, arg)
      [] op = "P_abstract" -> P_apply_abstract_correction(r, arg)
      [] op = "P_date" -> P_apply_date_correction(r, arg)
      [] op = "P_affiliation" -> P_apply_affiliation_corrections(r, arg)
      [] op = "P_descriptor" -> P_apply_descriptor_deletions(r, arg)
      [] op = "P_related" -> P_add_related_identifier(r, arg)
      [] op = "A_title" -> A_apply_title_correction(r, arg)
      [] op = "A_affiliation" -> A_apply_affiliation_corrections(r, arg)
      [] op = "A_org" -> A_apply_organizational_author_corrections(r, arg)
      [] op = "A_mark" -> A_mark_qa_checked(r)

HitsOf(op, r, arg) ==
    CASE op = "P_affiliation" -> P_AffiliationRun(r, arg).hits
      [] op = "A_affiliation" -> A_AffiliationRun(r, arg).hits
      [] OTHER -> << >>

Called(op, arg) ==
    LET out == Dispatch(op, record, arg)
    IN  /\ prev' = record
        /\ record' = out.rec
        /\ call' = [op |-> op, arg |-> arg, rets |-> Append(call.rets, out.ret),
                    hits |-> HitsOf(op, record, arg), raised |-> out.raised]
        /\ UNCHANGED <<orig, runVars, driverVars, summaryVars, checkerVars, probeVars>>

CallTitle ==
    /\ call.op = "none"
    /\ \E op \in {"P_title", "A_title"} : Called(op, "New Title")

CallAbstract ==
    /\ call.op = "none"
    /\ Called("P_abstract", "New abstract")

CallDate ==
    /\ call.op = "none"
    /\ \E d \in {"2021-05", "not-a-date"} : Called("P_date", d)

CallAffiliation ==
    /\ call.op = "none"
    /\ \E op \in {"P_affiliation", "A_affiliation"}, cs \in AffCorrections : Called(op, cs)

CallOrganizational ==
    /\ call.op = "none"
    /\ \E cs \in OrgCorrections : Called("A_org", cs)

CallDescriptor ==
    /\ call.op = "none"
    /\ \E raw \in RawDeletions :
          /\ NormalizeDeletions(raw) # << >>
          /\ Called("P_descriptor", NormalizeDeletions(raw))

CallRelated ==
    /\ call.op = "none"
    /\ \E i \in Identifiers : Called("P_related", i)

CallMark ==
    /\ call.op = "none"
    /\ Called("A_mark", << >>)

\* the same report applied again: the last call repeated on its result
Reapply ==
    /\ call.op # "none"
    /\ Len(call.rets) = 1
    /\ Called(call.op, call.arg)

MatchNext ==
    \/ CallTitle
    \/ CallAbstract
    \/ CallDate
    \/ CallAffiliation
    \/ CallOrganizational
    \/ CallDescriptor
    \/ CallRelated
    \/ CallMark
    \/ Reapply

SpecMatch == MatchInit /\ [][MatchNext]_vars

(***************************************************************************)
(* A run over a folder of QA reports: the Corrector's process_qa_reports   *)
(* or the applier's process_qa_folder.  The files are read one after the   *)
(* other; each step reads the next file, whatever report it holds.  The    *)
(* repository answers a request or fails it.                               *)
(***************************************************************************)
RunInit ==
    /\ ProbeIdle
    /\ CheckerIdle
    /\ SummaryIdle
    /\ MatchIdle
    /\ DriverIdle
    /\ run \in {"corrector", "applier"}
    /\ nfiles \in 1..MaxReports
    /\ done = 0
    /\ finished = FALSE
    /\ live \in Repositories
    /\ drafts = << >>
    /\ p_stats = P_ZeroStats
    /\ output_files = << >>
    /\ stats_file = << >>
    /\ returned = 0
    /\ dry_run \in BOOLEAN
    /\ a_stats = A_ZeroStats
    /\ last = NoReport

\* a variant that falls back on the file's name for the record id, as the
\* aggregator does
RecordIdOf_from_file_name(qa_data) == Get(qa_data, "record_id", "abcde-12345")

\* qa_data.get("record_id"): an absent and an empty record_id are both falsy
RecordIdOf(qa_data) == Get(qa_data, "record_id", "")

\* fetch_record: the published record, or None when the request fails, the
\* record does not exist or the answer is empty
Fetched(record_id, fetch_ok) ==
    fetch_ok /\ record_id \in DOMAIN live /\ live[record_id] # << >>

\* one iteration of process_qa_reports: records_processed += 1, then
\* process_qa_report on the file
P_process_qa_report(qa_data, fetch_ok) ==
    LET record_id == RecordIdOf(qa_data)
        counted == Bump(p_stats, {"records_processed"})
        fetch == <<Req("GET", "record", record_id)>>
    IN  /\ run = "corrector"
        /\ done < nfiles
        /\ done' = done + 1
        /\ UNCHANGED <<probeVars, checkerVars, summaryVars, driverVars, matchVars, run, nfiles, finished, live, drafts, stats_file,
                       dry_run, a_stats>>
        /\ IF qa_data = BadJson
           THEN /\ p_stats' = Bump(counted, {"errors"})
                /\ last' = [NoReport EXCEPT !.kind = "bad_json", !.report = qa_data]
                /\ UNCHANGED <<output_files, returned>>
           ELSE IF record_id = ""
           THEN /\ p_stats' = counted
                /\ last' = [NoReport EXCEPT !.kind = "no_id", !.report = qa_data]
                /\ UNCHANGED <<output_files, returned>>
           ELSE IF ~Fetched(record_id, fetch_ok)
           THEN /\ p_stats' = counted
                /\ last' = [NoReport EXCEPT !.kind = "no_fetch", !.report = qa_data,
                                            !.requests = fetch]
                /\ UNCHANGED <<output_files, returned>>
           ELSE IF P_NullCorrections(qa_data)
           THEN LET pass == P_BeforeRaise(qa_data, live[record_id])
                IN  /\ p_stats' = Bump(Bump(counted, pass.inc), {"errors"})
                    /\ last' = [kind |-> "raised", report |-> qa_data,
                                requests |-> fetch, calls |-> pass.calls,
                                applied |-> pass.applied, doc |-> pass.rec,
                                marked |-> FALSE, ret |-> FALSE,
                                outcome |-> NoOutcome]
                    /\ UNCHANGED <<output_files, returned>>
           ELSE LET pass == P_Corrections(qa_data, live[record_id])
                    saved == pass.applied > 0
                IN  /\ p_stats' = Bump(Bump(counted, pass.inc),
                                       IF saved THEN {"records_corrected"} ELSE {})
                    /\ output_files' =
                          IF saved
                          THEN Put(output_files, record_id,
                                   Snapshot(qa_data, live[record_id], pass))
                          ELSE output_files
                    /\ returned' = IF saved THEN returned + 1 ELSE returned
                    /\ last' = [kind |-> "processed", report |-> qa_data,
                                requests |-> fetch, calls |-> pass.calls,
                                applied |-> pass.applied, doc |-> pass.rec,
                                marked |-> FALSE, ret |-> saved,
                                outcome |-> NoOutcome]

\* after the loop: correction_statistics.json is written
P_Finish ==
    /\ run = "corrector"
    /\ done = nfiles
    /\ ~finished
    /\ finished' = TRUE
    /\ stats_file' = [statistics |-> p_stats, processed_files |-> nfiles]
    /\ UNCHANGED <<probeVars, checkerVars, summaryVars, driverVars, matchVars, run, nfiles, done, live, drafts, p_stats, output_files,
                   returned, dry_run, a_stats, last>>

Word(ok) == IF ok THEN "ok" ELSE "failed"

\* a variant that counts a failed record as updated as well
A_Verdict_counts_failures_as_updates(ok, update) ==
    {"records_updated"} \cup (IF ok THEN {} ELSE {"errors"})

\* the counters that close the handling of one record: records_updated (and
\* records_qa_checked_only when the record is only marked) when it returns
\* True, errors when it returns False
A_Verdict(ok, update) ==
    IF ok
    THEN {"records_updated"} \cup (IF update THEN {} ELSE {"records_qa_checked_only"})
    ELSE {"errors"}

\* update_record / mark_record_as_qa_checked_only on one record, with the
\* repository's answers: post_ok (the draft is created, the answer has an id),
\* get_ok (the draft comes back), put_ok (the draft takes the new content),
\* pub_ok (the draft is published, the answer has an id)
A_Record(report_data, post_ok, get_ok, put_ok, pub_ok) ==
    LET record_id == RecordIdOf(report_data)
        update == has_applicable_corrections(report_data)
        counted == Bump(a_stats, {"records_processed"})
        created == post_ok /\ record_id \in DOMAIN live
        drafts1 == IF created /\ record_id \notin DOMAIN drafts
                   THEN Put(drafts, record_id, live[record_id]) ELSE drafts
        got == created /\ get_ok /\ drafts1[record_id] # << >>
        full_draft == drafts1[record_id]
        pass == IF update THEN A_Corrections(report_data, full_draft)
                ELSE [rec |-> full_draft, applied |-> 0, calls |-> << >>, inc |-> {}]
        mark == A_mark_qa_checked(pass.rec)
        sent == got /\ ~mark.raised /\ ~dry_run
        drafts2 == IF sent /\ put_ok THEN Put(drafts1, record_id, mark.rec) ELSE drafts1
        published == sent /\ pub_ok
        ok == got /\ ~mark.raised /\ (dry_run \/ pub_ok)
    IN  /\ a_stats' = Bump(Bump(counted, IF got THEN pass.inc ELSE {}),
                           A_Verdict(ok, update))
        /\ live' = IF published THEN Put(live, record_id, drafts2[record_id]) ELSE live
        /\ drafts' = IF published
                     THEN [x \in (DOMAIN drafts2) \ {record_id} |-> drafts2[x]]
                     ELSE drafts2
        /\ last' = [kind |-> IF update THEN "update" ELSE "mark",
                    report |-> report_data,
                    requests |-> A_Requests(record_id, dry_run, created, got,
                                            ~mark.raised),
                    calls |-> IF got THEN pass.calls ELSE << >>,
                    applied |-> IF got THEN pass.applied ELSE 0,
                    doc |-> IF got THEN mark.rec ELSE << >>,
                    marked |-> got /\ ~mark.raised,
                    ret |-> ok,
                    outcome |-> [post |-> Word(created),
                                 get |-> IF created THEN Word(got) ELSE "none",
                                 put |-> IF sent THEN Word(put_ok) ELSE "none",
                                 publish |-> IF sent THEN Word(pub_ok) ELSE "none"]]

\* one iteration of process_qa_folder
A_process_file(report_data, post_ok, get_ok, put_ok, pub_ok) ==
    /\ run = "applier"
    /\ done < nfiles
    /\ done' = done + 1
    /\ UNCHANGED <<probeVars, checkerVars, summaryVars, driverVars, matchVars, run, nfiles, finished, p_stats, output_files, stats_file,
                   returned, dry_run>>
    /\ IF report_data = BadJson
       THEN /\ a_stats' = Bump(a_stats, {"errors"})
            /\ last' = [NoReport EXCEPT !.kind = "bad_json", !.report = report_data]
            /\ UNCHANGED <<live, drafts>>
       ELSE IF RecordIdOf(report_data) = ""
       THEN /\ last' = [NoReport EXCEPT !.kind = "no_id", !.report = report_data]
            /\ UNCHANGED <<a_stats, live, drafts>>
       ELSE A_Record(report_data, post_ok, get_ok, put_ok, pub_ok)

\* after the loop: the final statistics are logged
A_Finish ==
    /\ run = "applier"
    /\ done = nfiles
    /\ ~finished
    /\ finished' = TRUE
    /\ UNCHANGED <<probeVars, checkerVars, summaryVars, driverVars, matchVars, run, nfiles, done, live, drafts, p_stats, output_files,
                   stats_file, returned, dry_run, a_stats, last>>

CorrectorStep == \E qa_data \in Reports, fetch_ok \in BOOLEAN :
                    P_process_qa_report(qa_data, fetch_ok)

\* the repository's answers to one record's requests, up to the first one
\* that ends the handling; PUT and publish are only asked for when applying
Answers ==
    {<<FALSE, FALSE, FALSE, FALSE>>, <<TRUE, FALSE, FALSE, FALSE>>}
    \cup (IF dry_run THEN {<<TRUE, TRUE, FALSE, FALSE>>}
          ELSE {<<TRUE, TRUE, put_ok, pub_ok>> : put_ok, pub_ok \in BOOLEAN})

ApplierStep == \E report_data \in A_Reports, ans \in Answers :
                  A_process_file(report_data, ans[1], ans[2], ans[3], ans[4])

Next ==
    \/ CorrectorStep
    \/ P_Finish
    \/ ApplierStep
    \/ A_Finish

Spec == RunInit /\ [][Next]_vars

(***************************************************************************)
(* The driver's run: main builds the automation object and runs one phase *)
(* or the full workflow.                                                   *)
(***************************************************************************)
DriverInit ==
    /\ ProbeIdle
    /\ CheckerIdle
    /\ SummaryIdle
    /\ MatchIdle
    /\ RunIdle
    /\ automation \in {NewAutomation(a, e) : a \in Arguments, e \in Environs}

Framed == UNCHANGED <<matchVars, runVars, summaryVars, checkerVars, probeVars>>

\* automation = INISQAAutomation(); a ValueError ends main with exit code 1
D_Construct ==
    /\ automation.pc = "start"
    /\ automation' = Construct(automation)
    /\ Framed

\* --qa-only
D_QaOnly ==
    /\ automation.pc = "main"
    /\ automation.args.qa_only
    /\ \E returncode_zero \in BOOLEAN :
          LET s == run_qa_checker(automation, returncode_zero)
          IN  automation' = Exit(s.d, s.ret)
    /\ Framed

\* --corrections-only
D_CorrectionsOnly ==
    /\ automation.pc = "main"
    /\ ~automation.args.qa_only
    /\ automation.args.corrections_only
    /\ \E raised \in BOOLEAN :
          LET s == process_corrections(automation, raised)
          IN  automation' = Exit(s.d, s.ret)
    /\ Framed

\* --apply-only: apply_changes = True
D_ApplyOnly ==
    /\ automation.pc = "main"
    /\ ~automation.args.qa_only
    /\ ~automation.args.corrections_only
    /\ automation.args.apply_only
    /\ \E folder_ok \in BOOLEAN :
          LET s == apply_corrections_to_inis(automation, TRUE, folder_ok)
          IN  automation' = Exit(s.d, s.ret)
    /\ Framed

\* --email-only
D_EmailOnly ==
    /\ automation.pc = "main"
    /\ ~automation.args.qa_only
    /\ ~automation.args.corrections_only
    /\ ~automation.args.apply_only
    /\ automation.args.email_only
    /\ \E sent \in BOOLEAN :
          LET s == send_daily_report(automation, sent)
          IN  automation' = Exit(s.d, s.ret)
    /\ Framed

SinglePhase(args) ==
    args.qa_only \/ args.corrections_only \/ args.apply_only \/ args.email_only

\* run_daily_automation up to its try: the apply argument is resolved
D_RunDailyAutomation ==
    /\ automation.pc = "main"
    /\ ~SinglePhase(automation.args)
    /\ automation' =
          [automation EXCEPT
              !.pc = "step1",
              !.apply_corrections =
                  IF ResolveApply(ApplyArgument(automation.args),
                                  automation.access_token)
                  THEN "True" ELSE "False"]
    /\ Framed

\* Step 1: a failed QA checker aborts the workflow (return False)
D_Step1 ==
    /\ automation.pc = "step1"
    /\ \E returncode_zero \in BOOLEAN :
          LET s == run_qa_checker(automation, returncode_zero)
          IN  automation' = [s.d EXCEPT !.pc = IF s.ret THEN "step2" ELSE "finally",
                                        !.success = s.ret]
    /\ Framed

\* a variant of step 2 that goes on to the application step, leaving the
\* email out
D_Step2_skips_email ==
    /\ automation.pc = "step2"
    /\ \E raised \in BOOLEAN :
          LET s == process_corrections(automation, raised)
          IN  automation' = [s.d EXCEPT !.pc = "step4",
                                        !.success = automation.success /\ s.ret]
    /\ Framed

\* Step 2: a failure is recorded and the workflow goes on
D_Step2 ==
    /\ automation.pc = "step2"
    /\ \E raised \in BOOLEAN :
          LET s == process_corrections(automation, raised)
          IN  automation' = [s.d EXCEPT !.pc = "step3",
                                        !.success = automation.success /\ s.ret]
    /\ Framed

\* a variant of step 3 that forgets what went wrong before the email
D_Step3_forgets_failures ==
    /\ automation.pc = "step3"
    /\ \E sent \in BOOLEAN :
          LET s == send_daily_report(automation, sent)
          IN  automation' = [s.d EXCEPT !.pc = "step4", !.success = s.ret]
    /\ Framed

\* Step 3: the email goes out before the corrections are applied
D_Step3 ==
    /\ automation.pc = "step3"
    /\ \E sent \in BOOLEAN :
          LET s == send_daily_report(automation, sent)
          IN  automation' = [s.d EXCEPT !.pc = "step4",
                                        !.success = automation.success /\ s.ret]
    /\ Framed

\* Step 4
D_Step4 ==
    /\ automation.pc = "step4"
    /\ \E folder_ok \in BOOLEAN :
          LET s == apply_corrections_to_inis(
                      automation, automation.apply_corrections = "True", folder_ok)
          IN  automation' = [s.d EXCEPT !.pc = "finally",
                                        !.success = automation.success /\ s.ret]
    /\ Framed

\* the finally block of run_daily_automation, then main's sys.exit
D_Finally ==
    /\ automation.pc = "finally"
    /\ \E rmtree_ok \in BOOLEAN :
          automation' = Exit(cleanup_temp_files(automation, rmtree_ok),
                             automation.success)
    /\ Framed

DriverNext ==
    \/ D_Construct
    \/ D_QaOnly
    \/ D_CorrectionsOnly
    \/ D_ApplyOnly
    \/ D_EmailOnly
    \/ D_RunDailyAutomation
    \/ D_Step1
    \/ D_Step2
    \/ D_Step3
    \/ D_Step4
    \/ D_Finally

SpecDriver == DriverInit /\ [][DriverNext]_vars

(***************************************************************************)
(* The aggregator's scan of a folder: the files come in any order, each   *)
(* file name once.                                                         *)
(***************************************************************************)
SummaryInit ==
    /\ ProbeIdle
    /\ CheckerIdle
    /\ MatchIdle
    /\ RunIdle
    /\ DriverIdle
    /\ \E exists \in BOOLEAN : scan = [NoScan EXCEPT !.pc = "scan", !.exists = exists]

SummaryFramed == UNCHANGED <<matchVars, runVars, driverVars, checkerVars, probeVars>>

\* if not qa_path.exists(): return None
S_NoFolder ==
    /\ scan.pc = "scan"
    /\ ~scan.exists
    /\ scan' = [scan EXCEPT !.pc = "none"]
    /\ SummaryFramed

\* one iteration of the loop over report_files; an exception of the loop
\* body leaves create_summary_report
S_ReadFile ==
    /\ scan.pc = "scan"
    /\ scan.exists
    /\ Len(scan.files) < MaxFiles
    /\ \E file \in SummaryFiles :
          /\ \A i \in DOMAIN scan.files : scan.files[i].stem # file.stem
          /\ scan' =
                IF file.data # BadJson /\ AggregateRaises(file.data)
                THEN [scan EXCEPT !.pc = "raised", !.files = Append(@, file)]
                ELSE [scan EXCEPT !.files = Append(@, file),
                                  !.report_data = AggregateFile(@, file)]
    /\ SummaryFramed

\* the loop is over: the aggregates are returned
S_Return ==
    /\ scan.pc = "scan"
    /\ scan.exists
    /\ scan' = [scan EXCEPT !.pc = "returned"]
    /\ SummaryFramed

SummaryNext ==
    \/ S_NoFolder
    \/ S_ReadFile
    \/ S_Return

SpecSummary == SummaryInit /\ [][SummaryNext]_vars

(***************************************************************************)
(* The checker's pass over a batch: qa_check handles the records one after *)
(* another; an exception of send_to_gpt leaves qa_check.                   *)
(***************************************************************************)
CheckerInit ==
    /\ ProbeIdle
    /\ MatchIdle
    /\ RunIdle
    /\ DriverIdle
    /\ SummaryIdle
    /\ \E b \in Batches, repo \in CheckerRepositories :
          checker = [NoChecker EXCEPT !.pc = "record", !.batch = b, !.repo = repo]

CheckerFramed == UNCHANGED <<matchVars, runVars, driverVars, summaryVars, probeVars>>

\* the head of the loop body: check_duplicates for the next record
Q_Duplicates ==
    /\ checker.pc = "record"
    /\ checker.i <= Len(checker.batch)
    /\ \E doi_ok, title_ok \in BOOLEAN :
          LET rec == checker.batch[checker.i].rec
          IN  checker' = [checker EXCEPT
                             !.pc = "gpt",
                             !.attempt = 0,
                             !.tries = 0,
                             !.waits = << >>,
                             !.searched = Searched(rec, doi_ok, title_ok),
                             !.flags = check_duplicates(rec, checker.repo,
                                                        doi_ok, title_ok)]
    /\ CheckerFramed

\* send_to_gpt: a rate limit, timeout or connection error; the back-off is
\* slept and the loop goes to its next attempt, and when there is none
\* RuntimeError leaves qa_check
Q_Transient ==
    /\ checker.pc = "gpt"
    /\ checker.attempt < MaxAttempts
    /\ checker' = [checker EXCEPT
                      !.attempt = @ + 1,
                      !.calls = @ + 1,
                      !.tries = @ + 1,
                      !.waits = Append(@, Backoff(checker.attempt)),
                      !.pc = IF checker.attempt + 1 = MaxAttempts THEN "raised" ELSE "gpt"]
    /\ CheckerFramed

\* a variant in which a failed call is caught for its record and the pass
\* goes on with the next one
Q_Fatal_skips_record ==
    /\ checker.pc = "gpt"
    /\ checker.attempt < MaxAttempts
    /\ checker' = [checker EXCEPT !.calls = @ + 1, !.tries = @ + 1,
                                  !.pc = "record", !.i = @ + 1]
    /\ CheckerFramed

\* send_to_gpt: any other exception propagates
Q_Fatal ==
    /\ checker.pc = "gpt"
    /\ checker.attempt < MaxAttempts
    /\ checker' = [checker EXCEPT !.calls = @ + 1, !.tries = @ + 1, !.pc = "raised"]
    /\ CheckerFramed

\* send_to_gpt returns the reply: the rest of the loop body, to the report
\* file
Q_Reply ==
    /\ checker.pc = "gpt"
    /\ checker.attempt < MaxAttempts
    /\ \E ai_raw \in Replies :
          LET item == checker.batch[checker.i]
              ai_json == ReportOf(item.rec, checker.flags, ai_raw)
              written == NeedsOutput(ai_json)
          IN  checker' = [checker EXCEPT
                             !.calls = @ + 1,
                             !.pc = "record",
                             !.i = @ + 1,
                             !.tries = 0,
                             !.waits = << >>,
                             !.searched = NotSearched,
                             !.reports = IF written THEN Put(@, item.stem, ai_json) ELSE @,
                             !.writes = IF written THEN Append(@, item.stem) ELSE @]
    /\ CheckerFramed

\* the batch is exhausted: qa_check returns
Q_Return ==
    /\ checker.pc = "record"
    /\ checker.i > Len(checker.batch)
    /\ checker' = [checker EXCEPT !.pc = "done"]
    /\ CheckerFramed

CheckerNext ==
    \/ Q_Duplicates
    \/ Q_Transient
    \/ Q_Fatal
    \/ Q_Reply
    \/ Q_Return

SpecChecker == CheckerInit /\ [][CheckerNext]_vars

(***************************************************************************)
(* The deterministic checks of qa_check on one record: every publication  *)
(* date and lead record id of the tables, present, empty or absent, at    *)
(* two moments.                                                            *)
(***************************************************************************)
\* the records: a value, the empty string, or no such key
ProbeRecords ==
    LET Dates == {[publication_date |-> d] : d \in DOMAIN DateChars \cup {""}} \cup {<< >>}
        Leads == {("iaea:lead_record_id" :> l) : l \in DOMAIN LeadChars \cup {""}}
                 \cup {<< >>}
    IN  {[id |-> "abcde-12345", metadata |-> m, custom_fields |-> c] :
            m \in Dates, c \in Leads}

\* datetime.now(): the day of the pass, and the first day of 2999
Moments == {Today, <<2999, 1, 1>>}

ProbeInit ==
    /\ MatchIdle
    /\ RunIdle
    /\ DriverIdle
    /\ SummaryIdle
    /\ CheckerIdle
    /\ \E rec \in ProbeRecords, today \in Moments :
          probe = [NoProbe EXCEPT !.pc = "record", !.rec = rec, !.today = today]

\* the additional determinate checks of the loop body
T_Check ==
    /\ probe.pc = "record"
    /\ probe' = [probe EXCEPT
                    !.pc = "checked",
                    !.recommendations = ExtraRecommendations(probe.rec, probe.today)]
    /\ UNCHANGED <<matchVars, runVars, driverVars, summaryVars, checkerVars>>

ProbeNext == T_Check

SpecProbe == ProbeInit /\ [][ProbeNext]_vars


(***************************************************************************)
(* Claims on the matchers                                                  *)
(***************************************************************************)
CreatorsOf(r) ==
    IF "metadata" \in DOMAIN r /\ IsDict(r.metadata)
    THEN Get(r.metadata, "creators", << >>) ELSE << >>

AffCall == call.op \in {"P_affiliation", "A_affiliation"} /\ ~call.raised

OldOf(k) == Get(call.arg[k], "old_affiliation", "")

NewOf(k) == Get(call.arg[k], "recommended_affiliation", "")

\* for every pair with a non-empty recommended name: no affiliation is still
\* named old, and the pair's count is the number of entries named old before
AffPairsSettled ==
    \A k \in DOMAIN call.arg :
        NewOf(k) # "" =>
            /\ CountAff(CreatorsOf(record), OldOf(k)) = 0
            /\ call.hits[k] = CountAff(CreatorsOf(prev), OldOf(k))

DistinctOlds == \A j, k \in DOMAIN call.arg : j # k => OldOf(j) # OldOf(k)

\* C1 as stated: after apply_affiliation_corrections, for every pair (old,
\* new) with new non-empty no affiliation is named old and the matches counted
\* for the pair are the entries that were named old before (read here for
\* lists that name each old affiliation once).
C1_AsStated == (AffCall /\ DistinctOlds) => AffPairsSettled

\* the pairs that take effect rename from distinct, non-empty old names, and
\* none of them renames to a name that is an old name of the list
Unchained ==
    LET eff == {k \in DOMAIN call.arg : NewOf(k) # ""}
    IN  /\ \A k \in eff : OldOf(k) # ""
        /\ \A j, k \in eff : j # k => OldOf(j) # OldOf(k)
        /\ \A j, k \in eff : NewOf(j) # OldOf(k)

\* C1 amended: the same, for correction lists whose effective pairs have
\* distinct non-empty old names none of which is a recommended name.
C1_Affiliation == (AffCall /\ Unchained) => AffPairsSettled

\* two effective pairs of an unchained list, one of them matching twice
C1_Witness ==
    /\ AffCall
    /\ Unchained
    /\ call.op = "P_affiliation"
    /\ call.hits = <<2, 1>>

DescriptorsOf(r) ==
    IF "custom_fields" \in DOMAIN r /\ IsDict(r.custom_fields)
    THEN Get(r.custom_fields, DESCRIPTORS, << >>) ELSE << >>

Last(s) == s[Len(s)]

\* C9: descriptor deletion removes exactly the entries whose lowercase form
\* is the lowercase form of a deletion entry, returns true iff the list
\* shrank, and repeated on its result changes nothing and returns false.
C9_DescriptorDeletion ==
    (call.op = "P_descriptor" /\ ~call.raised) =>
        LET gone == {Lower(call.arg[k]) : k \in DOMAIN call.arg}
        IN  /\ DescriptorsOf(record)
                = SelectSeq(DescriptorsOf(prev), LAMBDA d : Lower(d) \notin gone)
            /\ Last(call.rets) = (Len(DescriptorsOf(record)) < Len(DescriptorsOf(prev)))
            /\ Len(call.rets) = 2 => (record = prev /\ call.rets[2] = FALSE)

\* "Reactor" deleted from ["REACTOR", "Fuel"] leaves ["Fuel"], and again
C9_Witness ==
    /\ call.op = "P_descriptor"
    /\ call.arg = <<"Reactor">>
    /\ DescriptorsOf(orig) = <<"REACTOR", "Fuel">>
    /\ DescriptorsOf(record) = <<"Fuel">>
    /\ call.rets = <<TRUE, FALSE>>

RelatedOf(r) ==
    IF "metadata" \in DOMAIN r /\ IsDict(r.metadata)
    THEN Get(r.metadata, "related_identifiers", << >>) ELSE << >>

WithIdentifier(r, ident) ==
    {i \in DOMAIN RelatedOf(r) : Get(RelatedOf(r)[i], "identifier", "") = ident}

\* C10 as stated, for an identifier object with a non-empty identifier string
\* that no entry of the record has: added twice without an internal error,
\* the record holds exactly one entry with it, the first addition returned
\* true and the second false.
C10_AsStated ==
    (/\ call.op = "P_related"
     /\ Len(call.rets) = 2
     /\ ~call.raised
     /\ IsDict(call.arg)
     /\ Get(call.arg, "identifier", "") # ""
     /\ WithIdentifier(orig, Get(call.arg, "identifier", "")) = {})
        => /\ Cardinality(WithIdentifier(record, Get(call.arg, "identifier", ""))) = 1
           /\ call.rets = <<TRUE, FALSE>>

\* the matchers a report's corrections go through again when it is reapplied
ReapplyOps ==
    {"P_title", "A_title", "P_date", "P_affiliation", "A_affiliation", "A_org",
     "P_descriptor"}

\* C11 as stated: the same correction applied a second time, to the record
\* the first application left, changes nothing, for every correction list.
C11_AsStated ==
    (call.op \in ReapplyOps /\ Len(call.rets) = 2) => record = prev

PairOld(c) ==
    IF call.op = "A_org" THEN Get(c, "old_organizational_author", "")
    ELSE Get(c, "old_affiliation", "")

PairNew(c) ==
    IF call.op = "A_org" THEN Get(c, "recommended_organizational_author", "")
    ELSE Get(c, "recommended_affiliation", "")

\* no pair of a rename list recommends a name that a pair of the list renames
ChainFree ==
    call.op \in {"P_affiliation", "A_affiliation", "A_org"} =>
        \A j, k \in DOMAIN call.arg :
            PairNew(call.arg[j]) # "" => PairNew(call.arg[j]) # PairOld(call.arg[k])

\* C11 amended: the second application changes nothing and, when it did not
\* raise, returns false for the rename and deletion matchers, provided no
\* pair of the list recommends a name that is an old name of the list; title
\* and date rewrites write the same value again.
C11_Reapply ==
    (call.op \in ReapplyOps /\ Len(call.rets) = 2 /\ ChainFree) =>
        /\ record = prev
        /\ call.op \in {"P_affiliation", "A_affiliation", "A_org", "P_descriptor"}
              => call.rets[2] = FALSE
        /\ (call.op \in {"P_title", "A_title", "P_date"} /\ ~call.raised)
              => call.rets = <<TRUE, TRUE>>

\* a chain-free list of two pairs renamed affiliations in the applier, and the
\* second application found nothing to rename
C11_Witness ==
    /\ call.op = "A_affiliation"
    /\ Len(call.arg) = 2
    /\ ChainFree
    /\ call.rets = <<TRUE, FALSE>>
    /\ record # orig
    /\ record = prev

\* C14 as stated: on the same record and the same argument the applier's
\* title and affiliation matchers give the record and the result that the
\* Corrector's give (correction lists of well-formed pairs).
C14_AsStated ==
    /\ (call.op \in {"P_title", "A_title"} /\ Len(call.rets) = 1) =>
          LET p == P_apply_title_correction(orig, call.arg)
              a == A_apply_title_correction(orig, call.arg)
          IN  p.rec = a.rec /\ p.ret = a.ret
    /\ (/\ call.op \in {"P_affiliation", "A_affiliation"}
        /\ Len(call.rets) = 1
        /\ \A k \in DOMAIN call.arg : IsDict(call.arg[k])) =>
          LET p == P_apply_affiliation_corrections(orig, call.arg)
              a == A_apply_affiliation_corrections(orig, call.arg)
          IN  p.rec = a.rec /\ p.ret = a.ret

\* the organizational-author matcher has been called on prev and left record
OrgCall == call.op = "A_org"

OrgName(creator) == Get(Get(creator, "person_or_org", << >>), "name", "")

\* the pairs of the list that name this creator: an organizational creator
\* whose name is the pair's old name, the pair recommending a non-empty name
OrgPairsFor(creator) ==
    {k \in DOMAIN call.arg :
        /\ IsDict(call.arg[k])
        /\ IsOrganizational(creator)
        /\ OrgName(creator) = Get(call.arg[k], "old_organizational_author", "")
        /\ Get(call.arg[k], "recommended_organizational_author", "") # ""}

OrgMatched == \E c \in DOMAIN CreatorsOf(prev) : OrgPairsFor(CreatorsOf(prev)[c]) # {}

\* the record differs from the one the matcher was given at most in the
\* person_or_org.name of creators some pair names, which then carry a name
\* that such a pair recommends
OrgFrame ==
    /\ record = WithCreators(prev, CreatorsOf(record))
    /\ DOMAIN CreatorsOf(record) = DOMAIN CreatorsOf(prev)
    /\ \A c \in DOMAIN CreatorsOf(prev) :
          LET before == CreatorsOf(prev)[c]
              after == CreatorsOf(record)[c]
          IN  \/ after = before
              \/ \E k \in OrgPairsFor(before) :
                    after = Put(before, "person_or_org",
                                Put(before.person_or_org, "name",
                                    call.arg[k].recommended_organizational_author))

\* C19 as stated: the organizational-author matcher changes only the names
\* of organizational creators named by a pair with a non-empty recommended
\* name, and it returns true iff at least one name was matched: true only
\* when a pair names a creator, true whenever one does and the list is read
\* to its end, and true whenever the call has renamed a creator.
C19_AsStated ==
    OrgCall =>
        /\ OrgFrame
        /\ Last(call.rets) => OrgMatched
        /\ (OrgMatched /\ ~call.raised) => Last(call.rets)
        /\ record # prev => Last(call.rets)

(***************************************************************************)
(* Claims on the folder runs                                               *)
(***************************************************************************)
QaChecked(doc) ==
    /\ "custom_fields" \in DOMAIN doc
    /\ IsDict(doc.custom_fields)
    /\ Get(doc.custom_fields, QA_CHECKED, FALSE) = TRUE

\* the last report file was handled to the end for its record: by the
\* Corrector, or by the applier with a true result
HandledRecord ==
    \/ last.kind = "processed"
    \/ last.kind \in {"update", "mark"} /\ last.ret

\* C2 as stated: after a QA report for a record is processed, the processed
\* record document has iaea:qa_checked true, also when no correction fired.
C2_AsStated == HandledRecord => QaChecked(last.doc)

NullCustomFields(doc) == "custom_fields" \in DOMAIN doc /\ ~IsDict(doc.custom_fields)

\* C2 amended: the document the applier builds from a fetched draft has the
\* marker set, corrections or not, and so has the published record when PUT
\* and publish succeed (a draft whose custom_fields is null makes the marking
\* raise: the record fails); the Corrector never sets the marker, its
\* corrected copy has it only when the fetched record had it.
C2_Marker ==
    /\ (last.kind \in {"update", "mark"} /\ last.outcome.get = "ok") =>
          IF NullCustomFields(last.doc) THEN ~last.ret /\ ~last.marked
          ELSE /\ last.marked
               /\ QaChecked(last.doc)
               /\ (last.outcome.put = "ok" /\ last.outcome.publish = "ok")
                     => QaChecked(live[last.report.record_id])
    /\ last.kind = "processed" =>
          (QaChecked(last.doc) <=> QaChecked(live[last.report.record_id]))

\* a report without corrections, applied: the published record is marked
C2_Witness ==
    /\ last.kind = "mark"
    /\ ~dry_run
    /\ last.applied = 0
    /\ last.outcome.publish = "ok"
    /\ QaChecked(live[last.report.record_id])

\* C3 as stated: in dry-run mode the applier sends no mutating request (no
\* draft-creating POST, no PUT, no publish POST) for any report.
C3_AsStated ==
    (run = "applier" /\ dry_run) =>
        \A i \in DOMAIN last.requests : last.requests[i].method = "GET"

Invoked(m) == \E i \in DOMAIN last.calls : last.calls[i].m = m

Applied(m) == \E i \in DOMAIN last.calls : last.calls[i].m = m /\ last.calls[i].ret

KeyPresent(k) == k \in DOMAIN Get(last.report, "corrections", << >>)

\* C5 as stated: in the Corrector and in the applier a title, abstract,
\* descriptor-deletion or publication-date correction is applied only when
\* its flag is true and its key is present (a related identifier: its key),
\* and the affiliation matcher (in the applier the organizational-author
\* matcher too, the Corrector has none) is applied whenever its list is
\* non-empty, whatever the flags.
C5_AsStated ==
    (last.kind = "processed" \/ (last.kind = "update" /\ last.outcome.get = "ok")) =>
        /\ Applied("title") => Flag(last.report, "title_corrected") /\ KeyPresent("title")
        /\ Applied("abstract") =>
              Flag(last.report, "abstract_corrected") /\ KeyPresent("abstract")
        /\ Applied("descriptor") =>
              Flag(last.report, "descriptor_corrected") /\ KeyPresent("delete_descriptor")
        /\ Applied("date") =>
              Flag(last.report, "date_corrected") /\ KeyPresent("publication_date")
        /\ Applied("related_identifier") => KeyPresent("related_identifiers")
        /\ Get(last.report, "affiliation_corrections", << >>) # << >>
              => Invoked("affiliation")
        /\ (run = "applier"
            /\ Get(last.report, "organizational_author_corrections", << >>) # << >>)
              => Invoked("organizational_author")

\* the matchers the Corrector's guards select for a report, in call order
P_Selected(qa_data) ==
    (IF P_TitleGuard(qa_data) THEN <<"title">> ELSE << >>)
    \o (IF P_AbstractGuard(qa_data) THEN <<"abstract">> ELSE << >>)
    \o (IF P_AffiliationGuard(qa_data) THEN <<"affiliation">> ELSE << >>)
    \o (IF P_DescriptorGuard(qa_data) THEN <<"descriptor">> ELSE << >>)
    \o (IF P_DateGuard(qa_data) THEN <<"date">> ELSE << >>)
    \o (IF P_RelatedGuard(qa_data)
        THEN [i \in 1..Len(NormalizeIdentifiers(qa_data.corrections.related_identifiers))
                |-> "related_identifier"]
        ELSE << >>)

A_Selected(report_data) ==
    (IF A_TitleGuard(report_data) THEN <<"title">> ELSE << >>)
    \o (IF A_AffiliationGuard(report_data) THEN <<"affiliation">> ELSE << >>)
    \o (IF A_OrgGuard(report_data) THEN <<"organizational_author">> ELSE << >>)

\* C6: a matcher that raises yields false and counts as no correction; the
\* matchers selected for the record are all called, raise or not; and the
\* loop goes on to the remaining report files until the folder is done.
C6_MatcherFailure ==
    /\ \A i \in DOMAIN last.calls : last.calls[i].raised => ~last.calls[i].ret
    /\ last.applied = Cardinality({i \in DOMAIN last.calls : last.calls[i].ret})
    /\ last.kind = "processed" =>
          [i \in DOMAIN last.calls |-> last.calls[i].m] = P_Selected(last.report)
    /\ (last.kind = "update" /\ last.outcome.get = "ok") =>
          [i \in DOMAIN last.calls |-> last.calls[i].m] = A_Selected(last.report)
    /\ run = "corrector" => p_stats.records_processed = done
    /\ done < nfiles => ENABLED Next

\* the first record's matchers raised on its null metadata, the descriptor
\* deletion after them went through, and the next report was processed
C6_Witness ==
    /\ run = "corrector"
    /\ done = 2
    /\ "abcde-12345" \in DOMAIN output_files
    /\ Get(output_files["abcde-12345"].corrected_record, "metadata", << >>) = Null
    /\ output_files["abcde-12345"].correction_metadata.corrections_applied = 1
    /\ "title" \in DOMAIN output_files["abcde-12345"].correction_metadata.corrections_summary
    /\ last.kind = "processed"
    /\ last.report.record_id = "fghij-67890"
    /\ last.ret

\* C7 as stated: in apply mode, when draft creation, the PUT or the publish
\* fails for a record, errors grows by one, records_updated does not grow and
\* the published record stays as it was.
C7_AsStated ==
    [][(/\ run = "applier"
        /\ ~dry_run
        /\ done' = done + 1
        /\ last'.kind \in {"update", "mark"}
        /\ "failed" \in {last'.outcome.post, last'.outcome.put, last'.outcome.publish})
          => /\ a_stats'.errors = a_stats.errors + 1
             /\ a_stats'.records_updated = a_stats.records_updated
             /\ live' = live]_vars

\* a report whose only correction is a title, flagged as corrected
TitleOnly(qa_data) ==
    /\ Flag(qa_data, "title_corrected")
    /\ DOMAIN Get(qa_data, "corrections", << >>) = {"title"}
    /\ Get(qa_data, "affiliation_corrections", << >>) = << >>

\* C12: a title-only report with title_corrected true, processed by the
\* Corrector against a fetched record (whose metadata, when present, is an
\* object), gives a snapshot whose corrected record has the report's title,
\* whose corrections_applied is 1 and whose original record is the fetched
\* one; title_corrections and records_corrected count it.
C12_TitleSnapshot ==
    (/\ last.kind = "processed"
     /\ TitleOnly(last.report)
     /\ Get(live[last.report.record_id], "metadata", << >>) # Null)
        => LET record_id == last.report.record_id
           IN  /\ last.ret
               /\ record_id \in DOMAIN output_files
               /\ Get(Get(output_files[record_id].corrected_record, "metadata", << >>),
                      "title", "") = last.report.corrections.title
               /\ output_files[record_id].correction_metadata.corrections_applied = 1
               /\ output_files[record_id].original_record = live[record_id]
               /\ p_stats.title_corrections >= 1
               /\ p_stats.records_corrected >= 1

\* "Old Title" became "New Title" in the snapshot of record abcde-12345
C12_Witness ==
    /\ last.kind = "processed"
    /\ TitleOnly(last.report)
    /\ last.report.record_id = "abcde-12345"
    /\ "abcde-12345" \in DOMAIN output_files
    /\ output_files["abcde-12345"].original_record = FullRecord
    /\ FullRecord.metadata.title = "Old Title"
    /\ output_files["abcde-12345"].corrected_record.metadata.title = "New Title"
    /\ output_files["abcde-12345"].correction_metadata.corrections_applied = 1

\* the kinds of correction whose matcher returned true for the last report
KindsApplied == {last.calls[i].m : i \in {j \in DOMAIN last.calls : last.calls[j].ret}}

RenameKinds == {"affiliation", "organizational_author"}

\* the affiliation entries and organizational names of record r that the
\* report's rename lists match
Occurrences(r, report, component) ==
    LET affs == Get(report, "affiliation_corrections", << >>)
        orgs == Get(report, "organizational_author_corrections", << >>)
    IN  (IF component = "corrector"
         THEN SumSeq(P_AffiliationRun(r, affs).hits)
         ELSE SumSeq(A_AffiliationRun(r, affs).hits))
        + (IF component = "applier" THEN A_OrgCount(CreatorsOf(r), orgs) ELSE 0)

\* C13 as stated: the count of corrections applied to a record is the number
\* of distinct kinds applied, the affiliation and organizational-author
\* kinds contributing their matched occurrences instead.
C13_AsStated ==
    [][(/\ done' = done + 1
        /\ \/ last'.kind = "processed"
           \/ last'.kind = "update" /\ last'.outcome.get = "ok"
        /\ \A i \in DOMAIN last'.calls : ~last'.calls[i].raised)
          => LET kinds == {last'.calls[i].m :
                             i \in {j \in DOMAIN last'.calls : last'.calls[j].ret}}
             IN  last'.applied
                    = Cardinality(kinds \ RenameKinds)
                      + (IF kinds \cap RenameKinds # {}
                         THEN Occurrences(live[last'.report.record_id], last'.report, run)
                         ELSE 0)]_vars

\* C13 amended: every kind whose matcher returned true contributes exactly
\* one, the affiliation and organizational-author kinds too, however many
\* occurrences they matched; the Corrector's related identifiers contribute
\* one for each identifier whose addition returned true.
C13_KindCount ==
    (\/ last.kind = "processed"
     \/ last.kind = "update" /\ last.outcome.get = "ok")
        => /\ last.applied
                = Cardinality(KindsApplied \ {"related_identifier"})
                  + Cardinality({i \in DOMAIN last.calls :
                                    /\ last.calls[i].m = "related_identifier"
                                    /\ last.calls[i].ret})
           /\ \A k \in RenameKinds :
                 Cardinality({i \in DOMAIN last.calls : last.calls[i].m = k}) <= 1

\* an affiliation list that matched three entries of the record counted once
C13_Witness ==
    /\ last.kind = "processed"
    /\ KindsApplied = {"affiliation"}
    /\ live[last.report.record_id] = FullRecord
    /\ Occurrences(FullRecord, last.report, "corrector") = 3
    /\ last.applied = 1

\* a report that parsed and carries no record_id, or an empty one
MissingRecordId(report) == report # BadJson /\ Get(report, "record_id", "") = ""

\* the step reads one more file of the folder
ReadsFile == done' = done + 1

\* C18: a report without a record_id is skipped by the Corrector and by the
\* applier: the step issues no request, leaves the repository, the drafts,
\* the output files and the applier's statistics alone, and changes no
\* counter of the Corrector but records_processed; and from a skipped report
\* with files remaining the run goes on to read the next file.
C18_MissingRecordId ==
    [][/\ (ReadsFile /\ MissingRecordId(last'.report)) =>
              /\ last'.kind = "no_id"
              /\ last'.requests = << >>
              /\ last'.calls = << >>
              /\ live' = live
              /\ drafts' = drafts
              /\ output_files' = output_files
              /\ returned' = returned
              /\ a_stats' = a_stats
              /\ p_stats' = IF run = "corrector"
                            THEN Bump(p_stats, {"records_processed"})
                            ELSE p_stats
              /\ ~finished'
       /\ (last.kind = "no_id" /\ done < nfiles) =>
              /\ ReadsFile
              /\ last'.kind # "none"]_vars

C18_Witness ==
    /\ last.kind = "no_id"
    /\ MissingRecordId(last.report)
    /\ done = 1
    /\ nfiles = 2
    /\ run = "applier"
    /\ ~dry_run

(***************************************************************************)
(* Claims on the driver                                                    *)
(***************************************************************************)
\* the full workflow has run its live-repository step
FullApplyStep ==
    /\ ~SinglePhase(automation.args)
    /\ Len(automation.steps) = 4

\* C4 as stated: in the full workflow, with neither apply flag given, the
\* live-repository step runs the applier in dry-run mode.
C4_AsStated ==
    (/\ FullApplyStep
     /\ ~automation.args.apply_corrections
     /\ ~automation.args.no_apply_corrections
     /\ automation.applier.constructed)
        => automation.applier.dry_run

\* C4 amended: the full workflow's live-repository step builds the applier
\* iff an access token is configured (the built-in one when the variable is
\* unset), and the applier is in dry-run mode iff --no-apply-corrections was
\* given without --apply-corrections: with neither flag it applies.
C4_ApplyDefault ==
    FullApplyStep =>
        /\ automation.applier.constructed <=> automation.access_token # ""
        /\ automation.applier.constructed =>
              (automation.applier.dry_run <=>
                  (/\ ~automation.args.apply_corrections
                   /\ automation.args.no_apply_corrections))
        /\ "INIS_ACCESS_TOKEN" \notin DOMAIN automation.environ
              => automation.access_token = DEFAULT_INIS_ACCESS_TOKEN

\* no flag, no token in the environment: the applier ran in apply mode
C4_Witness ==
    /\ FullApplyStep
    /\ automation.pc = "exited"
    /\ ~automation.args.apply_corrections
    /\ ~automation.args.no_apply_corrections
    /\ "INIS_ACCESS_TOKEN" \notin DOMAIN automation.environ
    /\ automation.applier.constructed
    /\ ~automation.applier.dry_run

\* C8 as stated: the temporary directory made by the constructor is removed
\* at the end of every run, success or failure, whichever phase was selected
\* (a removal that itself failed aside).
C8_AsStated ==
    (/\ automation.pc = "exited"
     /\ automation.temp_dir # "none"
     /\ automation.cleanup # "failed")
        => automation.temp_dir = "removed"

\* the order of the full workflow's steps
WorkflowOrder == <<"qa", "corrections", "email", "apply">>

\* the driver is in, or has left, the full workflow
InFullWorkflow ==
    /\ automation.pc \in {"step1", "step2", "step3", "step4", "finally", "exited"}
    /\ ~SinglePhase(automation.args)

\* C17: in the full workflow the steps taken so far are a beginning of QA
\* check, corrections processing, email report, application, each at most
\* once; the application step is entered, and the applier built, only after
\* the email step was taken.
C17_StepOrder ==
    InFullWorkflow =>
        /\ Len(automation.steps) <= Len(WorkflowOrder)
        /\ automation.steps = SubSeq(WorkflowOrder, 1, Len(automation.steps))
        /\ automation.pc = "step4" => automation.steps[Len(automation.steps)] = "email"
        /\ automation.applier # NoApplier =>
              \E i, j \in DOMAIN automation.steps :
                 i < j /\ automation.steps[i] = "email" /\ automation.steps[j] = "apply"

C17_Witness ==
    /\ InFullWorkflow
    /\ automation.steps = WorkflowOrder
    /\ automation.applier # NoApplier
    /\ ~automation.applier.dry_run

(***************************************************************************)
(* Claims on the aggregator                                                *)
(***************************************************************************)
\* the files of the scan that parsed, in the order they were read
Parsed(files) == SelectSeq(files, LAMBDA file : file.data # BadJson)

\* the files of the scan that failed to parse
Unparsed(files) == SelectSeq(files, LAMBDA file : file.data = BadJson)

\* the aggregates of a folder holding exactly these parsed reports
RECURSIVE AggregateAll(_)
AggregateAll(files) ==
    IF files = << >>
    THEN EmptyReportData
    ELSE AggregateReport(AggregateAll(SubSeq(files, 1, Len(files) - 1)),
                         files[Len(files)].stem, files[Len(files)].data)

\* the scan is under way or has returned its aggregates
Scanning == scan.pc \in {"scan", "returned"}

\* C15: in the scan of a folder, each file that is not JSON adds one to
\* summary.errors and one note to the errors, and nothing else: every counter,
\* set and per-record list is what the scan of the parsed files alone gives,
\* records_checked included, wherever the unparsed files stand in the folder.
C15_ParseFailure ==
    Scanning =>
        /\ scan.report_data.summary.errors = Len(Unparsed(scan.files))
        /\ Len(scan.report_data.errors) = Len(Unparsed(scan.files))
        /\ [scan.report_data EXCEPT !.summary.errors = 0, !.errors = << >>]
              = AggregateAll(Parsed(scan.files))
        /\ scan.report_data.summary.records_checked = Len(Parsed(scan.files))

C15_Witness ==
    /\ scan.pc = "returned"
    /\ Len(scan.files) = 3
    /\ scan.files[2].data = BadJson
    /\ scan.files[1].data # BadJson
    /\ scan.files[3].data # BadJson
    /\ scan.report_data.summary.errors = 1
    /\ scan.report_data.summary.records_checked = 2

\* the parsed reports of the scan whose title_corrected flag is true
TitleFlagged ==
    {i \in DOMAIN scan.files :
        /\ scan.files[i].data # BadJson
        /\ Get(scan.files[i].data, "title_corrected", FALSE) = TRUE}

\* C16: whatever files the scan has aggregated, summary.title_corrections is
\* the number of the parsed reports whose title_corrected flag is true.
C16_TitleCount ==
    Scanning => scan.report_data.summary.title_corrections = Cardinality(TitleFlagged)

C16_Witness ==
    /\ scan.pc = "returned"
    /\ Len(scan.files) = 2
    /\ scan.files[1].data # BadJson
    /\ scan.files[2].data # BadJson
    /\ Get(scan.files[1].data, "title_corrected", FALSE) = TRUE
    /\ Get(scan.files[2].data, "title_corrected", FALSE) = FALSE
    /\ scan.report_data.summary.title_corrections = 1

(***************************************************************************)
(* Claims on the QA checker                                                *)
(***************************************************************************)
\* the records of the batch whose language-model call returned a reply
Handled == 1..(checker.i - 1)

\* the number of times the report file of this name was written
WritesOf(stem) == Cardinality({w \in DOMAIN checker.writes : checker.writes[w] = stem})

\* C20: every record whose language-model call returned a reply has its
\* report file, written exactly once and carrying the record's id, whatever
\* the reply and the deterministic checks found and also when the reply was
\* not JSON; the records not handled have none.
C20_OneReport ==
    checker.pc # "idle" =>
        /\ \A k \in Handled :
              /\ checker.batch[k].stem \in DOMAIN checker.reports
              /\ WritesOf(checker.batch[k].stem) = 1
              /\ checker.reports[checker.batch[k].stem].record_id
                    = (IF "id" \in DOMAIN checker.batch[k].rec
                       THEN JStr(checker.batch[k].rec.id) ELSE Null)
        /\ Cardinality(DOMAIN checker.reports) = checker.i - 1
        /\ Len(checker.writes) = checker.i - 1

\* a batch of two handled to its end: a reply that is not JSON, and a reply
\* with nothing to report for a record on which no check finds anything
C20_Witness ==
    /\ checker.pc = "done"
    /\ Len(checker.batch) = 2
    /\ checker.batch[1].stem = "abcde-12345"
    /\ checker.batch[2].stem = "record_0"
    /\ "error" \in DOMAIN checker.reports["abcde-12345"]
    /\ ~NeedsOutput_filtered(checker.reports["record_0"])
    /\ checker.calls > 2

\* the step that writes the report of the record in hand
WritesReport == checker.pc = "gpt" /\ checker'.pc = "record"

\* the repository holds a record other than this one under the same value
OtherWith(rec, field, value) ==
    \E e \in checker.repo : e[field] = value /\ e.id # Get(rec, "id", "")

\* C21: in the report written for a record, duplicate_by_doi is true iff the
\* record has a DOI, the DOI search was answered and the repository holds
\* another record under that DOI; duplicate_by_title likewise for the title;
\* a failed search gives false, and so does a search not made.
C21_Duplicates ==
    [][WritesReport =>
          LET rec == checker.batch[checker.i].rec
              report == checker'.reports[checker.batch[checker.i].stem]
          IN  /\ report.duplicate_by_doi =
                    (/\ DoiOf(rec) # ""
                     /\ checker.searched.doi = "ok"
                     /\ OtherWith(rec, "doi", DoiOf(rec)))
              /\ report.duplicate_by_title =
                    (/\ TitleOf(rec) # ""
                     /\ checker.searched.title = "ok"
                     /\ OtherWith(rec, "title", TitleOf(rec)))]_vars

\* the record is indexed under its own DOI and title, another record shares
\* its DOI and none its title: the report says duplicate by DOI only, though
\* the assistant's reply carried a flag too
C21_Witness ==
    /\ checker.pc = "done"
    /\ "abcde-12345" \in DOMAIN checker.reports
    /\ IndexEntry("abcde-12345", "10.1/x", "Old Title") \in checker.repo
    /\ IndexEntry("zzzzz-00000", "10.1/x", "Other Title") \in checker.repo
    /\ IndexEntry("yyyyy-11111", "", "Old Title") \notin checker.repo
    /\ checker.reports["abcde-12345"].duplicate_by_doi
    /\ ~checker.reports["abcde-12345"].duplicate_by_title
    /\ Get(checker.reports["abcde-12345"], "scope_ok", TRUE) = FALSE

(***************************************************************************)
(* Claims on the deterministic checks                                      *)
(***************************************************************************)
Recommends(message) ==
    \E i \in DOMAIN probe.recommendations : probe.recommendations[i] = message

ProbeDate == Get(probe.rec.metadata, "publication_date", "")

ProbeLead == Get(probe.rec.custom_fields, "iaea:lead_record_id", "")

DigitChar == <<"1", "2", "3", "4", "5", "6", "7", "8", "9">>

\* the ways a month or day number is written: two digits, or one without
\* its leading zero
Spellings(n) ==
    IF n < 10 THEN {<<"0", DigitChar[n]>>, <<DigitChar[n]>>}
    ELSE {<<DigitChar[n \div 10], IF n % 10 = 0 THEN "0" ELSE DigitChar[n % 10]>>}

\* the years the dates of the table are in, each as its four digits
YearSpelling ==
    2020 :> <<"2", "0", "2", "0">> @@ 2026 :> <<"2", "0", "2", "6">>
    @@ 2996 :> <<"2", "9", "9", "6">> @@ 2999 :> <<"2", "9", "9", "9">>

\* the string spells a day of the calendar after today as YYYY-MM-DD
SpellsFutureDay(cs, today) ==
    \E y \in DOMAIN YearSpelling, m \in 1..12 :
       \E d \in 1..DaysIn(y, m), ms \in Spellings(m) :
          \E ds \in Spellings(d) :
             /\ cs = YearSpelling[y] \o <<"-">> \o ms \o <<"-">> \o ds
             /\ After(<<y, m, d>>, today)

\* the string spells a month as YYYY-MM whose first day is after today
SpellsFutureMonth(cs, today) ==
    \E y \in DOMAIN YearSpelling, m \in 1..12 :
       \E ms \in Spellings(m) :
          /\ cs = YearSpelling[y] \o <<"-">> \o ms
          /\ After(<<y, m, 1>>, today)

\* C22: the publication date is flagged iff it spells a calendar day as
\* YYYY-MM-DD, or else a month as YYYY-MM, that lies after the current
\* moment; a value that spells neither is not flagged; the spec's examples
\* come out as it says.
C22_FutureDate ==
    probe.pc = "checked" =>
        /\ Recommends("Publication date is in the future")
              = (\/ SpellsFutureDay(Chars(ProbeDate), probe.today)
                 \/ SpellsFutureMonth(Chars(ProbeDate), probe.today))
        /\ (probe.today = Today /\ ProbeDate \in {"2999-01", "2999-01-15"})
              => Recommends("Publication date is in the future")
        /\ ProbeDate \in {"2020-01", "not-a-date"}
              => ~Recommends("Publication date is in the future")

\* a month without a day, in the future, is flagged
C22_Witness ==
    /\ probe.pc = "checked"
    /\ probe.today = Today
    /\ ProbeDate = "2999-01"
    /\ Recommends("Publication date is in the future")

\* the value breaks the pattern: its length, its separator, or a character
\* that is no lowercase letter or digit
LeadDefect(cs) ==
    \/ Len(cs) # 11
    \/ \E i \in DOMAIN cs : IF i = 6 THEN cs[i] # "-" ELSE cs[i] \notin LowerAlnum

LeadPresent == "iaea:lead_record_id" \in DOMAIN probe.rec.custom_fields

\* C23 as stated: the lead-record-id recommendation is added iff the field
\* is present and is not five lowercase alphanumerics, a hyphen and five
\* lowercase alphanumerics.
C23_AsStated ==
    probe.pc = "checked" =>
        Recommends("Lead Record appears to be invalid")
           = (LeadPresent /\ LeadDefect(Chars(ProbeLead)))

\* C23 amended: the recommendation is added iff the field is present, is
\* not empty and breaks the pattern; capitals and another separator break
\* it, and an empty value is passed over like an absent one.
C23_LeadRecordId ==
    probe.pc = "checked" =>
        /\ Recommends("Lead Record appears to be invalid")
              = (LeadPresent /\ ProbeLead # "" /\ LeadDefect(Chars(ProbeLead)))
        /\ ProbeLead = "ab12c-xy99z" => ~Recommends("Lead Record appears to be invalid")
        /\ ProbeLead \in {"AB12C-XY99Z", "ab12c_xy99z"}
              => Recommends("Lead Record appears to be invalid")

C23_Witness ==
    /\ probe.pc = "checked"
    /\ ProbeLead = "AB12C-XY99Z"
    /\ Recommends("Lead Record appears to be invalid")

(***************************************************************************)
(* Claims on the language-model call                                       *)
(***************************************************************************)
\* send_to_gpt is under way, or has raised
InCall == checker.pc \in {"gpt", "raised"}

\* C24 as stated: for one record the call is tried at most 4 times; there
\* are as many waits as transient errors, of 1, 2 and 4 seconds; every wait
\* is followed by a retry, so a call that has failed has tried once more than
\* it has waited; a call whose attempts are exhausted has failed.
C24_AsStated ==
    InCall =>
        /\ checker.tries <= MaxAttempts
        /\ Len(checker.waits) = checker.attempt
        /\ \A n \in DOMAIN checker.waits : n <= 3 => checker.waits[n] = 2 ^ (n - 1)
        /\ checker.attempt = MaxAttempts => checker.pc = "raised"
        /\ checker.pc = "raised" => Len(checker.waits) = checker.tries - 1

\* the reports on disk are those of the records before the one in hand
ReportsUpTo(n) ==
    DOMAIN checker.reports = {checker.batch[k].stem : k \in 1..n}

\* C25: the records are handled one after another: whenever a record is in
\* hand (its searches, its call) the reports on disk are exactly those of
\* the records before it, each written once; when its call fails the pass is
\* over: nothing more is searched, asked or written.
C25_Sequential ==
    [][/\ checker.pc # "raised"
       /\ checker'.pc \in {"record", "gpt", "raised", "done"} =>
             /\ checker'.i \in 1..(Len(checker'.batch) + 1)
             /\ DOMAIN checker'.reports = {checker'.batch[k].stem : k \in 1..(checker'.i - 1)}
             /\ Len(checker'.writes) = checker'.i - 1
       /\ checker'.pc \in {"gpt", "raised"} => checker'.i <= Len(checker'.batch)
       /\ checker'.i >= checker.i]_vars

\* the call for the second record of two has failed: the first record's
\* report is there, the second's is not
C25_Witness ==
    /\ checker.pc = "raised"
    /\ Len(checker.batch) = 2
    /\ checker.i = 2
    /\ ReportsUpTo(1)
    /\ checker.batch[2].stem \notin DOMAIN checker.reports

(***************************************************************************)
(* Claims on the applier's requests and counters                           *)
(***************************************************************************)

\* the four requests of one record that is applied to the end
FullExchange(record_id) ==
    <<Req("POST", "draft", record_id), Req("GET", "draft", record_id),
      Req("PUT", "draft", record_id), Req("POST", "publish", record_id)>>

IsPut(r) == r.method = "PUT" /\ r.target = "draft"

IsPublish(r) == r.method = "POST" /\ r.target = "publish"

AppliedRecord == run = "applier" /\ ~dry_run /\ last.kind \in {"update", "mark"}

\* C26: in apply mode the requests for one record are a beginning of draft
\* POST, draft GET, draft PUT, publish POST, in that order and all for that
\* record; when the draft creation gave no id or the draft GET gave an empty
\* document there is no PUT and no publish; a publish comes only right
\* after a PUT for the same record.
C26_RequestOrder ==
    AppliedRecord =>
        LET rs == last.requests
            record_id == RecordIdOf(last.report)
        IN  /\ \E n \in 1..4 : rs = SubSeq(FullExchange(record_id), 1, n)
            /\ (last.outcome.post # "ok" \/ last.outcome.get # "ok") =>
                  \A i \in DOMAIN rs : ~IsPut(rs[i]) /\ ~IsPublish(rs[i])
            /\ \A i \in DOMAIN rs : IsPublish(rs[i]) =>
                  i > 1 /\ IsPut(rs[i - 1]) /\ rs[i - 1].id = rs[i].id

\* a record applied to the end: all four requests were sent, the PUT was
\* refused and the publish went through all the same
C26_Witness ==
    /\ AppliedRecord
    /\ last.requests = FullExchange(RecordIdOf(last.report))
    /\ last.outcome.put = "failed"
    /\ last.outcome.publish = "ok"

\* one call of update_record or mark_record_as_qa_checked_only
RecordCall ==
    /\ run = "applier"
    /\ done' = done + 1
    /\ last'.kind \in {"update", "mark"}

\* C27: every call of update_record or mark_record_as_qa_checked_only adds
\* one to records_processed and one to exactly one of records_updated and
\* errors; at every moment of an applier run
\* records_updated <= records_processed <= records_updated + errors.
C27_Counters ==
    /\ [][RecordCall =>
            /\ a_stats'.records_processed = a_stats.records_processed + 1
            /\ \/ /\ a_stats'.records_updated = a_stats.records_updated + 1
                  /\ a_stats'.errors = a_stats.errors
               \/ /\ a_stats'.records_updated = a_stats.records_updated
                  /\ a_stats'.errors = a_stats.errors + 1]_vars
    /\ [](run = "applier" =>
            /\ a_stats.records_updated <= a_stats.records_processed
            /\ a_stats.records_processed <= a_stats.records_updated + a_stats.errors)

\* a run with an unreadable report and then an updated record: the call
\* has counted the record as processed and updated, and the second
\* inequality is strict
C27_Witness ==
    /\ run = "applier"
    /\ last.kind \in {"update", "mark"}
    /\ last.ret
    /\ a_stats.records_updated = 1
    /\ a_stats.records_processed = 1
    /\ a_stats.errors = 1

(***************************************************************************)
(* Claims on the Corrector's snapshots                                     *)
(***************************************************************************)

\* C28: in a Corrector run the original_record part of every snapshot is
\* the record as fetched (the repository is only read), whatever corrections
\* the report carried and the matchers made on the corrected copy.
C28_OriginalKept ==
    run = "corrector" =>
        \A record_id \in DOMAIN output_files :
            /\ record_id \in DOMAIN live
            /\ Get(output_files[record_id], "original_record", << >>) = live[record_id]

\* a report with every kind of correction was processed on the full record:
\* five or more corrections were made and the two parts of its snapshot differ
C28_Witness ==
    /\ last.kind = "processed"
    /\ last.report = For("abcde-12345", AllKinds)
    /\ last.applied >= 5
    /\ "abcde-12345" \in DOMAIN output_files
    /\ output_files["abcde-12345"].corrected_record = last.doc
    /\ output_files["abcde-12345"].original_record # last.doc

\* one report file handled by the Corrector
ReportHandled == run = "corrector" /\ done' = done + 1

\* C29 as stated: the Corrector writes the record's snapshot and adds one to
\* records_corrected for a report iff at least one correction was made on
\* that record; what process_qa_reports returns is the growth of
\* records_corrected and at most the number of report files processed.
C29_AsStated ==
    /\ [][ReportHandled =>
            LET corrected == last'.applied > 0
                record_id == RecordIdOf(last'.report)
            IN  /\ corrected <=> last'.ret
                /\ last'.ret => record_id \in DOMAIN output_files'
                /\ ~last'.ret => output_files' = output_files
                /\ corrected <=>
                      p_stats'.records_corrected = p_stats.records_corrected + 1
                /\ ~corrected =>
                      p_stats'.records_corrected = p_stats.records_corrected
                /\ returned' - returned =
                      p_stats'.records_corrected - p_stats.records_corrected]_vars
    /\ [](run = "corrector" =>
            returned = p_stats.records_corrected /\ returned <= done)

(***************************************************************************)
(* Claims on the full workflow's result                                    *)
(***************************************************************************)

\* run_daily_automation has returned
WorkflowReturned ==
    /\ automation.pc = "exited"
    /\ ~SinglePhase(automation.args)
    /\ automation.steps # << >>

AllSucceeded ==
    /\ automation.steps = WorkflowOrder
    /\ \A i \in DOMAIN automation.results : automation.results[i]

\* C30: run_daily_automation returns true iff the four steps were all taken
\* and all succeeded; after a failed QA check no other step is taken; after a
\* QA check that succeeded the three other steps are all taken, whatever the
\* corrections processing and the email step gave.
C30_WorkflowResult ==
    /\ WorkflowReturned =>
          /\ automation.result <=> AllSucceeded
          /\ IF automation.results[1]
             THEN automation.steps = WorkflowOrder
             ELSE automation.steps = <<"qa">>
    /\ InFullWorkflow =>
          /\ Len(automation.results) = Len(automation.steps)
          /\ (automation.steps # << >> /\ ~automation.results[1]) =>
                automation.steps = <<"qa">>

\* the corrections processing and the email both failed, the application
\* was still run and succeeded, the workflow returned false
C30_Witness ==
    /\ WorkflowReturned
    /\ automation.steps = WorkflowOrder
    /\ automation.results = <<TRUE, FALSE, FALSE, TRUE>>
    /\ ~automation.result

====
